---- MODULE Spec2Model ----
(***************************************************************************)
(* A model of the two code-generation backends of the repository:         *)
(*   - stone/backends/tsd_types.py   (TSDTypesBackend, TypeScript .d.ts)   *)
(*   - generator/swift/swift.babelg.py (SwiftGenerator)                    *)
(* A run reads an immutable IR (namespaces, data types, routes) and the    *)
(* command line, and appends lines of text to an output buffer that is     *)
(* written to one file per output unit.  Text is modelled as a sequence of *)
(* items [dent, toks, nl]: an indentation, a sequence of tokens and        *)
(* whether a line break follows; Flatten gives the characters.             *)
(***************************************************************************)
EXTENDS Integers, Sequences, FiniteSets, TLC

VARIABLES
    backend,            \* "tsd" or "swift": which backend this run drives
    api,                \* the IR: [namespaces, types]
    args,               \* the parsed command line (self.args)
    template_file,      \* the template on disk: [exists, text]
    pc,                 \* position of the run
    template,           \* the text _read_template returned
    extra_args,         \* _parse_extra_args' result: type name -> parameters
    split_by_namespace, \* TSDTypesBackend.split_by_namespace
    units,              \* the output units still to generate, in order
    output_buffer,      \* the backend's output buffer (items emitted so far)
    cur_indent,         \* the backend's indentation counter
    files,              \* the files written, in order: [path, text]
    stderr,             \* what was printed to stderr
    fault               \* "" or the exception / exit that ended the run

vars == <<backend, api, args, template_file, pc, template, extra_args,
          split_by_namespace, units, output_buffer, cur_indent, files,
          stderr, fault>>

----------------------------------------------------------------------------
(* Bounds of the model.                                                    *)

\* longest text before and after the marker in a generated template
MaxTemplatePart == 2
\* most fields of the struct whose fields are enumerated
MaxFields == 2
\* most --extra-arg options on the command line
MaxExtraArgs == 2
\* most routes of the namespace whose routes are enumerated
MaxRoutes == 2
\* most variants of the union whose variants are enumerated
MaxVariants == 2
\* most Nullable and List wrappers around the type of a route
MaxWrappers == 2

----------------------------------------------------------------------------
(* Sequence helpers.                                                       *)

Range(s) == {s[i] : i \in 1..Len(s)}

RECURSIVE Repeat(_, _)
Repeat(x, n) == IF n <= 0 THEN <<>> ELSE <<x>> \o Repeat(x, n - 1)

RECURSIVE Flat(_)
\* concatenation of a sequence of sequences
Flat(ss) == IF ss = <<>> THEN <<>> ELSE Head(ss) \o Flat(Tail(ss))

RECURSIVE Join(_, _)
\* sep.join(parts), parts a sequence of token sequences
Join(sep, parts) ==
    IF parts = <<>> THEN <<>>
    ELSE IF Len(parts) = 1 THEN parts[1]
    ELSE parts[1] \o sep \o Join(sep, Tail(parts))

\* all sequences over S of length at most n
SeqsUpTo(S, n) == UNION {[1..k -> S] : k \in 0..n}

\* s[i:j] of Python (0-based, j exclusive) on a 1-based sequence
Slice(s, i, j) == SubSeq(s, i + 1, j)

----------------------------------------------------------------------------
(* Emitted text and the result of an emitter.  An emitter returns          *)
(* [l, e, d]: the items it appended, the exception it raised ("" if        *)
(* none) and the indentation counter it left behind.                       *)

NL == "\n"

Line(dent, toks) == [dent |-> IF toks = <<>> THEN 0 ELSE dent, toks |-> toks, nl |-> TRUE]
Raw(toks) == [dent |-> 0, toks |-> toks, nl |-> FALSE]

FlattenItem(it) ==
    Repeat(" ", it.dent) \o it.toks \o (IF it.nl THEN <<NL>> ELSE <<>>)

RECURSIVE Flatten(_)
\* the characters of a sequence of items
Flatten(items) ==
    IF items = <<>> THEN <<>> ELSE FlattenItem(Head(items)) \o Flatten(Tail(items))

\* the value of a Python local that was never bound: using it raises
Unbound == "!UnboundLocalError"

Ok(d, items) == [l |-> items, e |-> "", d |-> d]
Raise(d, err) == [l |-> <<>>, e |-> err, d |-> d]
Nothing(d) == Ok(d, <<>>)

\* a; b  (b is not run when a raised)
Then(a, b) == IF a.e # "" THEN a ELSE [l |-> a.l \o b.l, e |-> b.e, d |-> b.d]

RECURSIVE Chain(_, _)
\* the emitters of rs run in order from indentation d, up to the first that raises
Chain(d, rs) ==
    IF rs = <<>> THEN Nothing(d)
    ELSE IF Len(rs) = 1 THEN rs[1]
    ELSE Then(rs[1], Chain(d, Tail(rs)))

\* self.emit(s): one indented line; evaluating an unbound name raises first
emit(d, toks) ==
    IF Unbound \in Range(toks) THEN Raise(d, "UnboundLocalError")
    ELSE Ok(d, <<Line(d, toks)>>)

\* self.emit_raw(s): text appended verbatim, with no indentation
emit_raw(d, toks) == Ok(d, <<Raw(toks)>>)

----------------------------------------------------------------------------
(* The IR.  A data-type expression is a record with a kind; a user-defined *)
(* type is referred to by name (Ref) and defined in api.types.             *)

Prim(k) == [kind |-> k]
Nullable(t) == [kind |-> "Nullable", data_type |-> t]
List(t, mn, mx) == [kind |-> "List", data_type |-> t, min_items |-> mn, max_items |-> mx]
Ref(n) == [kind |-> "Ref", name |-> n]
\* a value absent in Python (None)
None == "None"

Int32 == [kind |-> "Int32", min_value |-> None, max_value |-> None]
String == [kind |-> "String", min_length |-> None, max_length |-> None, pattern |-> None]
Boolean == Prim("Boolean")
Void == Prim("Void")
Timestamp == [kind |-> "Timestamp", format |-> "%Y-%m-%d"]
\* a DataType variant none of the is_*_type predicates recognises
Unsupported == Prim("Unsupported")

Field(n, t, hd, dflt, doc) ==
    [name |-> n, data_type |-> t, has_default |-> hd, default |-> dflt, doc |-> doc]
\* a default: a literal, or a reference to a union's tag
Lit(v) == [kind |-> "lit", v |-> v]
Tag(v) == [kind |-> "tag", v |-> v]
NoDefault == [kind |-> "none", v |-> ""]

Struct(n, parent, fields, subtypes, catch_all, in_tree, doc) ==
    [kind |-> "Struct", name |-> n, parent_type |-> parent, fields |-> fields,
     subtypes |-> subtypes, catch_all |-> catch_all, in_tree |-> in_tree,
     doc |-> doc, data_type |-> Void, catch_all_field |-> None]
Union(n, parent, fields, catch_all_field, doc) ==
    [kind |-> "Union", name |-> n, parent_type |-> parent, fields |-> fields,
     subtypes |-> <<>>, catch_all |-> FALSE, in_tree |-> FALSE,
     doc |-> doc, data_type |-> Void, catch_all_field |-> catch_all_field]
Alias(n, t, doc) ==
    [kind |-> "Alias", name |-> n, parent_type |-> None, fields |-> <<>>,
     subtypes |-> <<>>, catch_all |-> FALSE, in_tree |-> FALSE,
     doc |-> doc, data_type |-> t, catch_all_field |-> None]
\* a named data type that is neither a struct, a union nor an alias
Other(n) ==
    [kind |-> "Other", name |-> n, parent_type |-> None, fields |-> <<>>,
     subtypes |-> <<>>, catch_all |-> FALSE, in_tree |-> FALSE,
     doc |-> "", data_type |-> Void, catch_all_field |-> None]

Route(n, arg, result, error, attrs, doc) ==
    [name |-> n, arg_data_type |-> arg, result_data_type |-> result,
     error_data_type |-> error, attrs |-> attrs, doc |-> doc]
Namespace(n, doc, data_types, aliases, routes, imports) ==
    [name |-> n, doc |-> doc, data_types |-> data_types, aliases |-> aliases,
     routes |-> routes, imports |-> imports]

TypeDef(n) == api.types[n]

is_nullable_type(t) == t.kind = "Nullable"
is_list_type(t) == t.kind = "List"
is_string_type(t) == t.kind = "String"
is_timestamp_type(t) == t.kind = "Timestamp"
is_boolean_type(t) == t.kind = "Boolean"
is_binary_type(t) == t.kind = "Bytes"
is_void_type(t) == t.kind = "Void"
is_numeric_type(t) ==
    t.kind \in {"Int32", "Int64", "UInt32", "UInt64", "Float32", "Float64"}
is_struct_type(t) == t.kind = "Ref" /\ TypeDef(t.name).kind = "Struct"
is_union_type(t) == t.kind = "Ref" /\ TypeDef(t.name).kind = "Union"
is_alias(t) == t.kind = "Ref" /\ TypeDef(t.name).kind = "Alias"
is_composite_type(t) == is_struct_type(t) \/ is_union_type(t)
is_user_defined_type(t) == is_struct_type(t) \/ is_union_type(t)

\* unwrap_nullable(t) -> (t', nullable)
unwrap_nullable(t) ==
    IF is_nullable_type(t) THEN <<t.data_type, TRUE>> ELSE <<t, FALSE>>

RECURSIVE all_fields(_)
\* Struct.all_fields: the parent's all_fields, then the struct's own
all_fields(n) ==
    LET s == TypeDef(n) IN
    (IF s.parent_type = None THEN <<>> ELSE all_fields(s.parent_type)) \o s.fields

has_enumerated_subtypes(n) == TypeDef(n).subtypes # <<>>
get_enumerated_subtypes(n) == TypeDef(n).subtypes
is_catch_all(n) == TypeDef(n).catch_all
is_member_of_enumerated_subtypes_tree(n) == TypeDef(n).in_tree

\* the tag under which struct n is listed by its parent ("" if it is not)
TagIn(parent, n) ==
    LET st == get_enumerated_subtypes(parent)
        hits == {i \in 1..Len(st) : st[i].data_type = n}
    IN IF hits = {} THEN ""
       ELSE st[CHOOSE i \in hits : \A j \in hits : i <= j].name

RECURSIVE get_subtype_tags(_)
\* Struct._get_subtype_tags: the tags from the base of the hierarchy to n
get_subtype_tags(n) ==
    LET p == TypeDef(n).parent_type IN
    IF p = None THEN <<>> ELSE get_subtype_tags(p) \o <<TagIn(p, n)>>

RECURSIVE SubtypesBfs(_)
SubtypesBfs(fifo) ==
    IF fifo = <<>> THEN <<>>
    ELSE LET dt == Head(fifo)
             st == get_enumerated_subtypes(dt)
         IN <<[tags |-> get_subtype_tags(dt), subtype |-> dt]>>
            \o SubtypesBfs(Tail(fifo) \o [i \in 1..Len(st) |-> st[i].data_type])

\* Struct.get_all_subtypes_with_tags: every descendant, breadth first
get_all_subtypes_with_tags(n) ==
    LET st == get_enumerated_subtypes(n)
    IN SubtypesBfs([i \in 1..Len(st) |-> st[i].data_type])

\* tsd_helpers.get_data_types_for_namespace: the data types, then the aliases
get_data_types_for_namespace(ns) == ns.data_types \o ns.aliases
\* ApiNamespace.linearize_data_types: the data types in dependency order
linearize_data_types(ns) == ns.data_types

----------------------------------------------------------------------------
(* tsd_helpers: the TypeScript names of types.                             *)

\* helpers.fmt_pascal / lang.format_class on the names the model uses
Capitalize(s) ==
    CASE s = "a" -> "A" [] s = "b" -> "B" [] s = "c" -> "C" [] s = "d" -> "D"
      [] s = "x" -> "X" [] s = "y" -> "Y" [] s = "z" -> "Z"
      [] s = "ns" -> "Ns" [] s = "ns2" -> "Ns2" [] s = "other" -> "Other"
      [] OTHER -> s
fmt_pascal(s) == Capitalize(s)

\* tsd_helpers.fmt_union
fmt_union(type_strings) ==
    IF Len(type_strings) > 1 THEN Join(<<"|">>, type_strings)
    ELSE IF Len(type_strings) = 1 THEN type_strings[1]
    ELSE <<"!IndexError">>

\* tsd_helpers._base_type_table
base_type_table(t) ==
    CASE t.kind = "Boolean" -> "boolean"
      [] t.kind \in {"Bytes", "String"} -> "string"
      [] is_numeric_type(t) -> "number"
      [] t.kind = "List" -> "Array"
      [] t.kind = "Timestamp" -> "Timestamp"
      [] t.kind = "Void" -> "void"
      [] OTHER -> "Object"

RECURSIVE fmt_type(_)
\* tsd_helpers.fmt_type_name
fmt_type_name(t) ==
    IF t.kind = "Ref" THEN <<t.name>>
    ELSE IF is_list_type(t)
         THEN <<base_type_table(t), "<">> \o fmt_type(t.data_type) \o <<">">>
         ELSE <<base_type_table(t)>>

\* tsd_helpers.fmt_polymorphic_type_reference
fmt_polymorphic_type_reference(t) == fmt_type_name(t) \o <<"Reference">>

\* tsd_helpers.fmt_type
fmt_type(t) ==
    IF is_struct_type(t) /\ has_enumerated_subtypes(t.name)
    THEN LET sub == get_all_subtypes_with_tags(t.name)
             refs == [i \in 1..Len(sub) |->
                         fmt_polymorphic_type_reference(Ref(sub[i].subtype))]
         IN fmt_union(refs \o (IF is_catch_all(t.name)
                               THEN <<fmt_polymorphic_type_reference(t)>>
                               ELSE <<>>))
    ELSE fmt_type_name(t)

----------------------------------------------------------------------------
(* TSDTypesBackend: the emitters.  d is the indentation counter on entry.  *)

\* _emit_tsdoc_header
_emit_tsdoc_header(d, doc) ==
    Chain(d, <<emit(d, <<"/**">>), emit(d, <<" * ">> \o doc), emit(d, <<" */">>)>>)

\* _generate_alias_type
_generate_alias_type(d, n) ==
    Chain(d, <<emit(d, <<"export type ">> \o fmt_type_name(Ref(n)) \o <<" = ">>
                       \o fmt_type_name(TypeDef(n).data_type) \o <<";">>),
               emit(d, <<>>)>>)

\* a declaration line that marks only nullable fields optional
TsdFieldNameNullableOnly(field) ==
    IF unwrap_nullable(field.data_type)[2] THEN <<field.name, "?">> ELSE <<field.name>>

\* the declaration line of one struct field (tsd_types.py:384-398)
TsdFieldName(field) ==
    LET nullable == unwrap_nullable(field.data_type)[2]
        optional == nullable \/ field.has_default
    IN IF optional THEN <<field.name, "?">> ELSE <<field.name>>

\* the doc comment text of one struct field (tsd_types.py:384-392)
TsdFieldDoc(field) ==
    LET doc0 == IF field.doc = "" THEN <<>> ELSE <<field.doc>>
        doc1 == IF doc0 # <<>> THEN doc0 \o <<NL, NL>> ELSE <<>>
        doc2 == <<"Defaults to ", field.default.v, ".">>
    IN IF field.has_default THEN doc2 ELSE doc0

TsdField(d, field) ==
    LET field_type == unwrap_nullable(field.data_type)[1]
        field_ts_type == fmt_type(field_type)
        doc == TsdFieldDoc(field)
    IN Chain(d, <<IF doc # <<>> THEN _emit_tsdoc_header(d, doc) ELSE Nothing(d),
                  emit(d, TsdFieldName(field) \o <<": ">> \o field_ts_type \o <<";">>)>>)

\* one extra parameter of a struct (tsd_types.py:377-381)
TsdExtraParameter(d, p) ==
    Chain(d, <<IF p.arg_docstring # "" THEN _emit_tsdoc_header(d, <<p.arg_docstring>>)
               ELSE Nothing(d),
               emit(d, <<p.arg_name, "?", ": ", p.arg_type, ";">>)>>)

RECURSIVE NearestEnumeratingParent(_)
\* the loop of tsd_types.py:435-437, None when it runs off the root
NearestEnumeratingParent(p) ==
    IF p = None THEN None
    ELSE IF has_enumerated_subtypes(p) THEN p
    ELSE NearestEnumeratingParent(TypeDef(p).parent_type)

\* the reference interface of a struct of an enumerated-subtypes tree
\* (tsd_types.py:408-458)
TsdPolymorphicReference(d, n, indent_spaces) ==
    LET me == Ref(n)
        di == d + indent_spaces
    IN
    IF ~is_member_of_enumerated_subtypes_tree(n) THEN Nothing(d)
    ELSE IF has_enumerated_subtypes(n)
    THEN LET sub == get_all_subtypes_with_tags(n)
             tag_values == Flat([i \in 1..Len(sub) |->
                                   [j \in 1..Len(sub[i].tags) |->
                                       <<"\"", sub[i].tags[j], "\"">>]])
             tag_union == fmt_union(tag_values)
         IN Chain(d, <<
              _emit_tsdoc_header(d, <<"Reference to the ">> \o fmt_type_name(me)
                                   \o <<" polymorphic type.">>),
              emit(d, <<"export interface ">> \o fmt_polymorphic_type_reference(me)
                      \o <<" extends ">> \o fmt_type_name(me) \o <<" {">>),
              _emit_tsdoc_header(di, <<"Tag identifying the subtype variant.">>),
              emit(di, <<"'.tag': ">> \o tag_union \o <<";">>),
              emit(d, <<"}">>),
              emit(d, <<>>)>>)
    ELSE LET parent == NearestEnumeratingParent(TypeDef(n).parent_type)
         IN IF parent = None THEN Raise(d, "AttributeError")
            ELSE IF TagIn(parent, n) = "" THEN Nothing(d)
            ELSE Chain(d, <<
              _emit_tsdoc_header(d, <<"Reference to the ">> \o fmt_type_name(me)
                                   \o <<" type.">>),
              emit(d, <<"export interface ">> \o fmt_polymorphic_type_reference(me)
                      \o <<" extends ">> \o fmt_type_name(me) \o <<" {">>),
              _emit_tsdoc_header(di, <<"Tag identifying this subtype variant.">>),
              emit(di, <<"'.tag': '", TagIn(parent, n), "';">>),
              emit(d, <<"}">>),
              emit(d, <<>>)>>)

\* _generate_struct_type
_generate_struct_type(d, n, indent_spaces, extra_parameters) ==
    LET struct_type == TypeDef(n)
        parent_type == struct_type.parent_type
        extends_line == IF parent_type # None
                        THEN <<" extends ">> \o fmt_type_name(Ref(parent_type))
                        ELSE <<>>
        di == d + indent_spaces
    IN Chain(d, <<
         IF struct_type.doc # "" THEN _emit_tsdoc_header(d, <<struct_type.doc>>)
         ELSE Nothing(d),
         emit(d, <<"export interface ">> \o fmt_type_name(Ref(n)) \o extends_line
                 \o <<" {">>),
         Chain(di, [i \in 1..Len(extra_parameters) |->
                      TsdExtraParameter(di, extra_parameters[i])]),
         Chain(di, [i \in 1..Len(struct_type.fields) |->
                      TsdField(di, struct_type.fields[i])]),
         emit(d, <<"}">>),
         emit(d, <<>>),
         TsdPolymorphicReference(d, n, indent_spaces)>>)

\* a variant shape that attaches every payload that is not void under a property
TsdVariantAlwaysProperty(d, union_type_name, variant, indent_spaces) ==
    LET variant_name == union_type_name \o <<fmt_pascal(variant.name)>>
        di == d + indent_spaces
    IN Chain(d, <<
         IF variant.doc # "" THEN _emit_tsdoc_header(d, <<variant.doc>>) ELSE Nothing(d),
         emit(d, <<"export interface ">> \o variant_name \o <<" {">>),
         emit(di, <<"'.tag': '", variant.name, "';">>),
         IF ~is_void_type(variant.data_type)
         THEN emit(di, <<variant.name, ": ">> \o fmt_type(variant.data_type) \o <<";">>)
         ELSE Nothing(di),
         emit(d, <<"}">>),
         emit(d, <<>>)>>)

\* one variant of a union (tsd_types.py:481-505)
TsdVariant(d, union_type_name, variant, indent_spaces) ==
    LET variant_name == union_type_name \o <<fmt_pascal(variant.name)>>
        is_struct_without_enumerated_subtypes ==
            is_struct_type(variant.data_type)
            /\ ~has_enumerated_subtypes(variant.data_type.name)
        di == d + indent_spaces
    IN Chain(d, <<
         IF variant.doc # "" THEN _emit_tsdoc_header(d, <<variant.doc>>) ELSE Nothing(d),
         IF is_struct_without_enumerated_subtypes
         THEN emit(d, <<"export interface ">> \o variant_name \o <<" extends ">>
                      \o fmt_type(variant.data_type) \o <<" {">>)
         ELSE emit(d, <<"export interface ">> \o variant_name \o <<" {">>),
         emit(di, <<"'.tag': '", variant.name, "';">>),
         IF ~is_void_type(variant.data_type) /\ ~is_struct_without_enumerated_subtypes
         THEN emit(di, <<variant.name, ": ">> \o fmt_type(variant.data_type) \o <<";">>)
         ELSE Nothing(di),
         emit(d, <<"}">>),
         emit(d, <<>>)>>)

\* _generate_union_type
_generate_union_type(d, n, indent_spaces) ==
    LET union_type == TypeDef(n)
        parent_type == union_type.parent_type
        union_type_name == fmt_type_name(Ref(n))
        variant_type_names ==
            (IF parent_type # None THEN <<fmt_type_name(Ref(parent_type))>> ELSE <<>>)
            \o [i \in 1..Len(union_type.fields) |->
                  union_type_name \o <<fmt_pascal(union_type.fields[i].name)>>]
    IN Chain(d, <<
         Chain(d, [i \in 1..Len(union_type.fields) |->
                     TsdVariant(d, union_type_name, union_type.fields[i], indent_spaces)]),
         IF union_type.doc # "" THEN _emit_tsdoc_header(d, <<union_type.doc>>)
         ELSE Nothing(d),
         emit(d, <<"export type ">> \o union_type_name \o <<" = ">>
                 \o Join(<<" | ">>, variant_type_names) \o <<";">>),
         emit(d, <<>>)>>)

\* _generate_type: a type that is no alias, struct or union falls through
_generate_type(d, n, indent_spaces, extra) ==
    IF is_alias(Ref(n)) THEN _generate_alias_type(d, n)
    ELSE IF is_struct_type(Ref(n)) THEN _generate_struct_type(d, n, indent_spaces, extra)
    ELSE IF is_union_type(Ref(n)) THEN _generate_union_type(d, n, indent_spaces)
    ELSE Nothing(d)

----------------------------------------------------------------------------
(* TSDTypesBackend: the fixed texts and the output units.                  *)

\* _header (tsd_types.py:109-111)
header == <<"// Auto-generated by Stone, do not modify.", NL>>

\* _types_header (tsd_types.py:113-136), split at its line breaks
types_header == <<
    <<"/**">>,
    <<" * An Error object returned from a route.">>,
    <<" */">>,
    <<"interface Error<T> {">>,
    <<"\t", "// Text summary of the error.">>,
    <<"\t", "error_summary: string;">>,
    <<"\t", "// The error object.">>,
    <<"\t", "error: T;">>,
    <<"\t", "// User-friendly error message.">>,
    <<"\t", "user_message: UserMessage;">>,
    <<"}">>,
    <<>>,
    <<"/**">>,
    <<" * User-friendly error message.">>,
    <<" */">>,
    <<"interface UserMessage {">>,
    <<"\t", "// The message.">>,
    <<"\t", "text: string;">>,
    <<"\t", "// The locale of the message.">>,
    <<"\t", "locale: string;">>,
    <<"}">>,
    <<>>,
    <<>> >>

\* _timestamp_definition (tsd_types.py:138)
timestamp_definition == <<"type Timestamp = string;">>

\* the placeholder of the template, character by character
Marker == <<"/", "*", "T", "Y", "P", "E", "S", "*", "/">>

\* str.replace('\t', ' ' * n) on a line of tokens
ReplaceTabs(toks, n) ==
    Flat([i \in 1..Len(toks) |-> IF toks[i] = "\t" THEN Repeat(" ", n) ELSE <<toks[i]>>])

\* the indented error types (tsd_types.py:220-224)
indented_types_header(indent, spaces_per_indent) ==
    Join(<<NL>>, [i \in 1..Len(types_header) |->
                    Repeat(" ", indent) \o ReplaceTabs(types_header[i], spaces_per_indent)])

\* tsd_helpers.generate_imports_for_referenced_namespaces
generate_imports_for_referenced_namespaces(d, ns, module_name_prefix) ==
    IF ns.imports = <<>> THEN Nothing(d)
    ELSE Chain(d, [i \in 1..Len(ns.imports) |->
                     emit(d, <<"import * as ", ns.imports[i], " from '",
                               module_name_prefix, ns.imports[i], "';">>)]
                  \o <<emit(d, <<>>)>>)

\* _get_top_level_declaration
_get_top_level_declaration(name, split) ==
    IF split THEN <<"declare module '", args.module_name_prefix, name, "' {">>
    ELSE IF args.export_namespaces THEN <<"export namespace ", name, " {">>
    ELSE <<"namespace ", name, " {">>

\* extra_args.get(data_type, [])
ExtraArgsGet(ea, n) == IF n \in DOMAIN ea THEN ea[n] ELSE <<>>

\* _generate_types
_generate_types(d, namespace, spaces_per_indent, ea, split) ==
    LET data_types == get_data_types_for_namespace(namespace)
        di == d + spaces_per_indent
    IN IF Len(data_types) = 0 THEN Nothing(d)
       ELSE Chain(d, <<
         IF split
         THEN generate_imports_for_referenced_namespaces(d, namespace,
                                                         args.module_name_prefix)
         ELSE Nothing(d),
         IF namespace.doc # "" THEN _emit_tsdoc_header(d, <<namespace.doc>>)
         ELSE Nothing(d),
         emit(d, _get_top_level_declaration(namespace.name, split)),
         Chain(di, [i \in 1..Len(data_types) |->
                      _generate_type(di, data_types[i], spaces_per_indent,
                                     ExtraArgsGet(ea, data_types[i]))]),
         IF split THEN emit(di, timestamp_definition) ELSE Nothing(d),
         emit(d, <<"}">>),
         emit(d, <<>>)>>)

\* re.search("/\\*TYPES\\*/", template): the 1-based places of the marker
MarkerPlaces(tpl) ==
    {i \in 1..(Len(tpl) - Len(Marker) + 1) : SubSeq(tpl, i, i + Len(Marker) - 1) = Marker}

\* the text generated between the two pieces of the template
\* (tsd_types.py:216-232)
TsdBody(namespace_list, tpl, ea, exclude_error_types, split) ==
    LET spaces_per_indent == args.spaces_per_indent
        indent == spaces_per_indent * args.indent_level
    IN Chain(indent, <<
         IF ~exclude_error_types
         THEN emit_raw(indent, indented_types_header(indent, spaces_per_indent) \o <<NL>>)
         ELSE Nothing(indent),
         IF ~split
         THEN Chain(indent, <<emit(indent, timestamp_definition), emit(indent, <<>>)>>)
         ELSE Nothing(indent),
         Chain(indent, [i \in 1..Len(namespace_list) |->
                          _generate_types(indent, namespace_list[i], spaces_per_indent,
                                          ea, split)])>>)

\* the body of 'with self.output_to_relative_path(filename)'
\* (tsd_types.py:203-234)
TsdUnitText(namespace_list, tpl, ea, exclude_error_types, split) ==
    IF MarkerPlaces(tpl) = {}
    THEN Raise(0, "AssertionError: Missing /*TYPES*/ in TypeScript template file.")
    ELSE
    LET first == CHOOSE i \in MarkerPlaces(tpl) : \A j \in MarkerPlaces(tpl) : i <= j
        t_start == first - 1
        t_end == t_start + Len(Marker)
        t_ends_with_newline == tpl[(t_end - 1) + 1] = NL
        temp_end == Len(tpl)
        temp_ends_with_newline == tpl[(temp_end - 1) + 1] = NL
    IN Chain(0, <<
         emit_raw(0, Slice(tpl, 0, t_start)
                     \o (IF ~t_ends_with_newline THEN <<NL>> ELSE <<>>)),
         TsdBody(namespace_list, tpl, ea, exclude_error_types, split),
         emit_raw(0, Slice(tpl, t_end + 1, temp_end)
                     \o (IF ~temp_ends_with_newline THEN <<NL>> ELSE <<>>))>>)

\* _generate_base_namespace_module: [skipped, r]
_generate_base_namespace_module(namespace_list, tpl, ea, exclude_error_types, split) ==
    IF \A i \in 1..Len(namespace_list) :
          Len(get_data_types_for_namespace(namespace_list[i])) = 0
    THEN [skipped |-> TRUE, r |-> Nothing(0)]
    ELSE [skipped |-> FALSE,
          r |-> TsdUnitText(namespace_list, tpl, ea, exclude_error_types, split)]

----------------------------------------------------------------------------
(* --extra-arg: the raw options and _parse_extra_args.  A raw option is    *)
(* the JSON text; json |-> "invalid" is text json.loads rejects, "number"  *)
(* a JSON document that is no object, "object" an object whose four keys   *)
(* hold a JSON value each (JAbsent: the key is missing).                    *)

JStr(v) == [t |-> "str", v |-> v]
JNum == [t |-> "num", v |-> "1"]
JAbsent == [t |-> "absent", v |-> ""]
JList(vs) == [t |-> "list", v |-> vs]

RawArg(json, match, arg_name, arg_type, arg_docstring) ==
    [json |-> json, match |-> match, arg_name |-> arg_name, arg_type |-> arg_type,
     arg_docstring |-> arg_docstring]

\* the check a raw option fails first: the message passed to invalid(),
\* "TypeError" for an uncaught exception, "" when it passes
\* (tsd_types.py:290-315)
ExtraArgCheck(raw) ==
    IF raw.json = "invalid" THEN "Expecting value"
    ELSE IF raw.json # "object" THEN "TypeError"
    ELSE IF raw.match.t = "absent" THEN "No match key"
    ELSE IF raw.match.t # "list" \/ Len(raw.match.v) # 2
         THEN "match key is not a list of two strings"
    ELSE IF raw.match.v[1].t # "str" \/ raw.match.v[2].t # "str"
         THEN "match values are not strings"
    ELSE IF raw.arg_name.t = "absent" THEN "No arg_name key"
    ELSE IF raw.arg_name.t # "str" THEN "arg_name is not a string"
    ELSE IF raw.arg_type.t = "absent" THEN "No arg_type key"
    ELSE IF raw.arg_type.t # "str" THEN "arg_type is not a string"
    ELSE IF raw.arg_docstring.t # "absent" /\ raw.arg_docstring.t # "str"
         THEN "arg_docstring is not a string"
    ELSE ""

\* the tuple stored for a valid option (tsd_types.py:319-320)
ExtraParameter(raw) ==
    [arg_name |-> raw.arg_name.v, arg_type |-> raw.arg_type.v,
     arg_docstring |-> raw.arg_docstring.v]

RECURSIVE ParseRawArgs(_, _)
\* the loop over the raw options (tsd_types.py:289-320): invalid() prints one
\* message and exits, so the options after it are never looked at
ParseRawArgs(raws, map) ==
    IF raws = <<>> THEN [status |-> "ok", stderr |-> <<>>, map |-> map]
    ELSE LET raw == Head(raws)
             msg == ExtraArgCheck(raw)
         IN IF msg = "TypeError"
            THEN [status |-> "TypeError", stderr |-> <<>>, map |-> map]
            ELSE IF msg # ""
            THEN [status |-> "exit 1",
                  stderr |-> <<[msg |-> msg, raw |-> raw]>>, map |-> map]
            ELSE LET key == <<raw.match.v[1].v, raw.match.v[2].v>>
                 IN ParseRawArgs(Tail(raws),
                        [k \in DOMAIN map \cup {key} |->
                            IF k = key THEN ExtraParameter(raw) ELSE map[k]])

\* route.attrs as an ordered sequence of <<key, value>> pairs
AttrKeys(map) == {k[1] : k \in DOMAIN map}

\* the parameters one route matches (tsd_types.py:327-334)
RouteExtraParameters(route, map) ==
    IF is_user_defined_type(route.arg_data_type)
    THEN Flat([i \in 1..Len(route.attrs) |->
                 IF route.attrs[i][1] \notin AttrKeys(map) THEN <<>>
                 ELSE IF route.attrs[i] \in DOMAIN map THEN <<map[route.attrs[i]]>>
                 ELSE <<>>])
    ELSE <<>>

RECURSIVE ExtraArgsForTypes(_, _, _)
\* the loop over every route of every namespace (tsd_types.py:323-336)
ExtraArgsForTypes(routes, map, acc) ==
    IF routes = <<>> THEN acc
    ELSE LET route == Head(routes)
             extra_parameters == RouteExtraParameters(route, map)
         IN ExtraArgsForTypes(Tail(routes), map,
              IF Len(extra_parameters) > 0
              THEN [n \in DOMAIN acc \cup {route.arg_data_type.name} |->
                      IF n = route.arg_data_type.name THEN extra_parameters ELSE acc[n]]
              ELSE acc)

AllRoutes(a) == Flat([i \in 1..Len(a.namespaces) |-> a.namespaces[i].routes])

\* the empty dict
EmptyMap == [k \in {} |-> <<>>]

\* _parse_extra_args
_parse_extra_args(a, extra_args_raw) ==
    LET parsed == ParseRawArgs(extra_args_raw, EmptyMap)
    IN IF parsed.status # "ok"
       THEN [status |-> parsed.status, stderr |-> parsed.stderr, result |-> EmptyMap]
       ELSE [status |-> "ok", stderr |-> <<>>,
             result |-> ExtraArgsForTypes(AllRoutes(a), parsed.map, EmptyMap)]

----------------------------------------------------------------------------
(* SwiftGenerator: names, argument lists and the type-shape resolver.      *)

\* the default indentation of CodeGenerator.indent / block
SwiftDent == 4

\* Python's None where a token sequence is expected
PyNone == <<"!None">>

\* SwiftTargetLanguage.format_class / format_variable / format_method
format_class(name) == Capitalize(name)
format_variable(name) == name
format_method(name) == name
\* SwiftTargetLanguage.format_obj: the literal of a default value
format_obj(default) == default.v

\* class_data_type (swift.babelg.py:142-143); n names a user-defined type
class_data_type(n) == format_class(n)

\* self.block(before): the line 'before {', the indented body, the line '}'
block(d, before, inner) ==
    Chain(d, <<emit(d, before \o <<" {">>), inner, emit(d, <<"}">>)>>)

\* _func_args without newlines; an argument is <<name, value>>
_func_args(args_list, force_first) ==
    Join(<<", ">>,
         SelectSeq([i \in 1..Len(args_list) |->
                      IF args_list[i][2] = PyNone THEN <<>>
                      ELSE <<IF i = 1 /\ force_first /\ " = " \notin Range(args_list[i][2])
                             THEN "#" \o args_list[i][1] ELSE args_list[i][1],
                             ": ">> \o args_list[i][2]],
                   LAMBDA a : a # <<>>))

\* function_block
function_block(d, func, fargs, return_type, inner) ==
    block(d, func \o <<"(">> \o fargs \o <<")">>
             \o (IF return_type # <<>> THEN <<" -> ">> \o return_type ELSE <<>>),
          inner)

\* class_block for a data type (thing names it) and for a plain class name
class_block_type(d, n, protocols, inner) ==
    LET extensions == (IF TypeDef(n).parent_type # None
                       THEN <<<<class_data_type(TypeDef(n).parent_type)>>>> ELSE <<>>)
                      \o protocols
    IN block(d, <<"public class ", class_data_type(n)>>
                \o (IF extensions # <<>> THEN <<": ">> \o Join(<<", ">>, extensions)
                    ELSE <<>>),
             inner)
class_block_name(d, name, protocols, inner) ==
    block(d, <<"public class ">> \o name
             \o (IF protocols # <<>> THEN <<": ">> \o Join(<<", ">>, protocols)
                 ELSE <<>>),
          inner)

\* serializer_block
serializer_block(d, n, inner) ==
    class_block_name(d, <<class_data_type(n), "Serializer">>, <<<<"JSONSerializer">>>>,
                     Then(emit(d + SwiftDent, <<"public init() { }">>), inner))

\* serializer_func / deserializer_func
serializer_func(d, n, inner) ==
    function_block(d, <<"public func serialize">>,
                   _func_args(<<<<"value", <<class_data_type(n)>>>>>>, FALSE),
                   <<"JSON">>, inner)
deserializer_func(d, n, inner) ==
    function_block(d, <<"public func deserialize">>,
                   _func_args(<<<<"json", <<"JSON">>>>>>, FALSE),
                   <<class_data_type(n)>>, inner)

\* the prefix 'Namespace.' of a composite type's name (namespace None: "")
NsPrefix(namespace) ==
    IF namespace # None THEN <<format_class(namespace), ".">> ELSE <<>>

RECURSIVE _serializer_obj(_, _)
\* _serializer_obj: a type no branch recognises leaves 'ret' unbound
_serializer_obj(data_type, namespace) ==
    LET nullable == is_nullable_type(data_type)
        dt == IF nullable THEN data_type.data_type ELSE data_type
        ret == IF is_list_type(dt)
               THEN <<"ArraySerializer(">> \o _serializer_obj(dt.data_type, namespace)
                    \o <<")">>
               ELSE IF is_string_type(dt) THEN <<"Serialization._StringSerializer">>
               ELSE IF is_timestamp_type(dt)
                    THEN <<"NSDateSerializer(\"", dt.format, "\")">>
               ELSE IF is_boolean_type(dt) THEN <<"Serialization._BoolSerializer">>
               ELSE IF is_binary_type(dt) THEN <<"Serialization._NSDataSerializer">>
               ELSE IF is_void_type(dt) THEN <<"Serialization._VoidSerializer">>
               ELSE IF dt.kind = "Int32" THEN <<"Serialization._Int32Serializer">>
               ELSE IF dt.kind = "Int64" THEN <<"Serialization._Int64Serializer">>
               ELSE IF dt.kind = "UInt32" THEN <<"Serialization._UInt32Serializer">>
               ELSE IF dt.kind = "UInt64" THEN <<"Serialization._UInt64Serializer">>
               ELSE IF dt.kind = "Float32" THEN <<"Serialization._FloatSerializer">>
               ELSE IF dt.kind = "Float64" THEN <<"Serialization._DoubleSerializer">>
               ELSE IF is_composite_type(dt)
                    THEN NsPrefix(namespace) \o <<class_data_type(dt.name), "Serializer()">>
               ELSE <<Unbound>>
    IN IF nullable THEN <<"NullableSerializer(">> \o ret \o <<")">> ELSE ret

RECURSIVE _swift_type_mapping(_, _, _)

\* a resolver that marks a nullable serializer with '?' as it marks a type name
SwiftTypeMappingAlwaysMarks(data_type, namespace, serializer) ==
    LET suffix == IF serializer THEN <<"Serializer">> ELSE <<>>
        nullable == is_nullable_type(data_type)
        dt == IF nullable THEN data_type.data_type ELSE data_type
        ret == IF is_list_type(dt)
               THEN (<<"Array">> \o suffix \o <<"<">>
                     \o _swift_type_mapping(dt.data_type, namespace, serializer)
                     \o <<">">>)
               ELSE (IF is_string_type(dt) THEN <<"String">>
                     ELSE IF is_timestamp_type(dt) THEN <<"NSDate">>
                     ELSE IF is_boolean_type(dt) THEN <<"Bool">>
                     ELSE IF is_binary_type(dt) THEN <<"NSData">>
                     ELSE IF is_void_type(dt) THEN <<"Void">>
                     ELSE IF dt.kind = "Int32" THEN <<"Int32">>
                     ELSE IF dt.kind = "Int64" THEN <<"Int64">>
                     ELSE IF dt.kind = "UInt32" THEN <<"UInt32">>
                     ELSE IF dt.kind = "UInt64" THEN <<"UInt64">>
                     ELSE IF dt.kind = "Float32" THEN <<"Float">>
                     ELSE IF dt.kind = "Float64" THEN <<"Double">>
                     ELSE IF is_composite_type(dt)
                          THEN NsPrefix(namespace) \o <<class_data_type(dt.name)>>
                     ELSE <<Unbound>>) \o suffix
    IN IF nullable THEN ret \o <<"?">> ELSE ret

\* _swift_type_mapping
_swift_type_mapping(data_type, namespace, serializer) ==
    LET suffix == IF serializer THEN <<"Serializer">> ELSE <<>>
        nullable == is_nullable_type(data_type)
        dt == IF nullable THEN data_type.data_type ELSE data_type
        ret == IF is_list_type(dt)
               THEN (<<"Array">> \o suffix \o <<"<">>
                     \o _swift_type_mapping(dt.data_type, namespace, serializer)
                     \o <<">">>)
               ELSE (IF is_string_type(dt) THEN <<"String">>
                     ELSE IF is_timestamp_type(dt) THEN <<"NSDate">>
                     ELSE IF is_boolean_type(dt) THEN <<"Bool">>
                     ELSE IF is_binary_type(dt) THEN <<"NSData">>
                     ELSE IF is_void_type(dt) THEN <<"Void">>
                     ELSE IF dt.kind = "Int32" THEN <<"Int32">>
                     ELSE IF dt.kind = "Int64" THEN <<"Int64">>
                     ELSE IF dt.kind = "UInt32" THEN <<"UInt32">>
                     ELSE IF dt.kind = "UInt64" THEN <<"UInt64">>
                     ELSE IF dt.kind = "Float32" THEN <<"Float">>
                     ELSE IF dt.kind = "Float64" THEN <<"Double">>
                     ELSE IF is_composite_type(dt)
                          THEN NsPrefix(namespace) \o <<class_data_type(dt.name)>>
                     ELSE <<Unbound>>) \o suffix
    IN IF nullable
       THEN IF serializer THEN <<"NullableSerializer<">> \o ret \o <<">">>
            ELSE ret \o <<"?">>
       ELSE ret

RECURSIVE _determine_validator_type(_)
\* _determine_validator_type: PyNone when the type has no validator
_determine_validator_type(data_type) ==
    LET nullable == is_nullable_type(data_type)
        dt == IF nullable THEN data_type.data_type ELSE data_type
        opt(x) == IF x = None THEN PyNone ELSE <<x>>
        v == IF is_list_type(dt)
             THEN LET item_validator == _determine_validator_type(dt.data_type)
                  IN IF item_validator # PyNone
                     THEN <<"arrayValidator(">>
                          \o _func_args(<<<<"minItems", opt(dt.min_items)>>,
                                          <<"maxItems", opt(dt.max_items)>>,
                                          <<"itemValidator", item_validator>>>>, FALSE)
                          \o <<")">>
                     ELSE PyNone
             ELSE IF is_numeric_type(dt)
             THEN <<"comparableValidator(">>
                  \o _func_args(<<<<"minValue", opt(dt.min_value)>>,
                                  <<"maxValue", opt(dt.max_value)>>>>, FALSE)
                  \o <<")">>
             ELSE IF is_string_type(dt)
             THEN <<"stringValidator(">>
                  \o _func_args(<<<<"minLength", opt(dt.min_length)>>,
                                  <<"maxLength", opt(dt.max_length)>>,
                                  <<"pattern", IF dt.pattern = None THEN PyNone
                                               ELSE <<"\"", dt.pattern, "\"">>>>>>, FALSE)
                  \o <<")">>
             ELSE PyNone
    IN IF v = PyNone THEN PyNone
       ELSE IF nullable THEN <<"nullableValidator(">> \o v \o <<")">>
       ELSE v

\* the value of one initializer argument (swift.babelg.py:305-322)
StructInitArg(field, namespace) ==
    LET value == _swift_type_mapping(field.data_type, namespace, FALSE)
        nullable == is_nullable_type(field.data_type)
        field_type == IF nullable THEN field.data_type.data_type ELSE field.data_type
        default == IF is_union_type(field_type)
                   THEN "." \o format_class(field.default.v)
                   ELSE format_obj(field.default)
    IN <<format_variable(field.name),
         IF field.has_default THEN value \o <<" = ", default>>
         ELSE IF nullable THEN value \o <<" = ", "nil">>
         ELSE value>>

\* _struct_init_args; n names the struct
_struct_init_args(n, namespace) ==
    LET fs == all_fields(n)
    IN [i \in 1..Len(fs) |-> StructInitArg(fs[i], namespace)]

----------------------------------------------------------------------------
(* SwiftGenerator: structs.  namespace is the namespace's name.            *)

HasUnbound(args_list) ==
    \E i \in 1..Len(args_list) : Unbound \in Range(args_list[i][2])

\* the body of the initializer (swift.babelg.py:332-342)
StructInitBody(d, n) ==
    LET data_type == TypeDef(n)
        fieldEm(field) ==
            LET v == format_variable(field.name)
                validator == _determine_validator_type(field.data_type)
            IN Chain(d, <<IF validator # PyNone
                          THEN emit(d, validator \o <<"(value: ", v, ")">>)
                          ELSE Nothing(d),
                          emit(d, <<"self.", v, " = ", v>>)>>)
        pf == IF data_type.parent_type # None THEN all_fields(data_type.parent_type)
              ELSE <<>>
        func_args == [i \in 1..Len(pf) |->
                        <<format_variable(pf[i].name), <<format_variable(pf[i].name)>>>>]
    IN Chain(d, <<
         Chain(d, [i \in 1..Len(data_type.fields) |-> fieldEm(data_type.fields[i])]),
         IF data_type.parent_type # None
         THEN emit(d, <<"super.init(">> \o _func_args(func_args, FALSE) \o <<")">>)
         ELSE Nothing(d)>>)

\* an initializer emitter that returns early from inside its block
StructInitReturnsInsideBlock(d, namespace, n) ==
    LET data_type == TypeDef(n)
        init_args == _struct_init_args(n, None)
    IN IF HasUnbound(init_args) THEN Raise(d, "UnboundLocalError")
       ELSE IF data_type.parent_type # None /\ data_type.fields = <<>>
       THEN Nothing(d + SwiftDent)
       ELSE function_block(d, <<"public init">>, _func_args(init_args, FALSE), <<>>,
                           StructInitBody(d + SwiftDent, n))

\* _generate_struct_init
_generate_struct_init(d, namespace, n) ==
    LET data_type == TypeDef(n)
        init_args == _struct_init_args(n, None)
    IN IF HasUnbound(init_args) THEN Raise(d, "UnboundLocalError")
       ELSE IF data_type.parent_type # None /\ data_type.fields = <<>> THEN Nothing(d)
       ELSE function_block(d, <<"public init">>, _func_args(init_args, FALSE), <<>>,
                           StructInitBody(d + SwiftDent, n))

\* one case of the subtype switch of serialize (swift.babelg.py:347-360)
EnumeratedSubtypeSerializerCase(d, namespace, sub) ==
    IF Len(sub.tags) # 1 THEN Raise(d, "AssertionError")
    ELSE LET tag == sub.tags[1]
             tagvar == format_variable(tag)
             di == d + SwiftDent
         IN Chain(d, <<
              emit(d, <<"case let ", tagvar, " as ">>
                      \o _swift_type_mapping(Ref(sub.subtype), namespace, FALSE)
                      \o <<":">>),
              block(di, <<"for (k,v) in Serialization.getFields(">>
                        \o _serializer_obj(Ref(sub.subtype), None)
                        \o <<".serialize(", tagvar, "))">>,
                    emit(di + SwiftDent, <<"output[k] = v">>)),
              emit(di, <<"output[\".tag\"] = .Str(\"", tag, "\")">>)>>)

\* _generate_enumerated_subtype_serializer
_generate_enumerated_subtype_serializer(d, namespace, n) ==
    LET sub == get_all_subtypes_with_tags(n)
        di == d + SwiftDent
    IN block(d, <<"switch value">>,
             Chain(di, <<
               Chain(di, [i \in 1..Len(sub) |->
                            EnumeratedSubtypeSerializerCase(di, namespace, sub[i])]),
               emit(di, <<"default: fatalError(\"Tried to serialize unexpected subtype\")">>)
             >>))

\* a deserializer that reads each field through the serializer of its
\* unwrapped type, as the union deserializer does
StructDeserializerUnwrapped(d, namespace, n) ==
    LET fs == all_fields(n)
        dargs == [i \in 1..Len(fs) |->
                    <<format_variable(fs[i].name), <<format_variable(fs[i].name)>>>>]
    IN Chain(d, <<
         Chain(d, [i \in 1..Len(fs) |->
                     emit(d, <<"let ", format_variable(fs[i].name), " = ">>
                             \o _serializer_obj(unwrap_nullable(fs[i].data_type)[1], None)
                             \o <<".deserialize(dict[\"", fs[i].name, "\"] ?? .Null)">>)]),
         emit(d, <<"return ", class_data_type(n), "(">> \o _func_args(dargs, FALSE)
                 \o <<")">>)>>)

\* _generate_struct_base_class_deserializer
_generate_struct_base_class_deserializer(d, namespace, n) ==
    LET fs == all_fields(n)
        dargs == [i \in 1..Len(fs) |->
                    <<format_variable(fs[i].name), <<format_variable(fs[i].name)>>>>]
    IN Chain(d, <<
         Chain(d, [i \in 1..Len(fs) |->
                     emit(d, <<"let ", format_variable(fs[i].name), " = ">>
                             \o _serializer_obj(fs[i].data_type, None)
                             \o <<".deserialize(dict[\"", fs[i].name, "\"] ?? .Null)">>)]),
         emit(d, <<"return ", class_data_type(n), "(">> \o _func_args(dargs, FALSE)
                 \o <<")">>)>>)

\* one case of the tag switch of deserialize (swift.babelg.py:383-387)
EnumeratedSubtypeDeserializerCase(d, sub) ==
    IF Len(sub.tags) # 1 THEN Raise(d, "AssertionError")
    ELSE Chain(d, <<
           emit(d, <<"case \"", sub.tags[1], "\":">>),
           emit(d + SwiftDent, <<"return ">> \o _serializer_obj(Ref(sub.subtype), None)
                               \o <<".deserialize(json)">>)>>)

\* a tag switch whose default branch is a fatal fault whether or not the
\* struct is a catch-all
EnumeratedSubtypeDeserializerNoCatchAll(d, namespace, n) ==
    LET sub == get_all_subtypes_with_tags(n)
        di == d + SwiftDent
    IN Chain(d, <<
         emit(d, <<"let tag = Serialization.getTag(dict)">>),
         block(d, <<"switch tag">>,
               Chain(di, <<
                 Chain(di, [i \in 1..Len(sub) |->
                              EnumeratedSubtypeDeserializerCase(di, sub[i])]),
                 emit(di, <<"default:">>),
                 emit(di + SwiftDent, <<"fatalError(\"Unknown tag \\(tag)\")">>)>>))>>)

\* _generate_enumerated_subtype_deserializer
_generate_enumerated_subtype_deserializer(d, namespace, n) ==
    LET sub == get_all_subtypes_with_tags(n)
        di == d + SwiftDent
    IN Chain(d, <<
         emit(d, <<"let tag = Serialization.getTag(dict)">>),
         block(d, <<"switch tag">>,
               Chain(di, <<
                 Chain(di, [i \in 1..Len(sub) |->
                              EnumeratedSubtypeDeserializerCase(di, sub[i])]),
                 emit(di, <<"default:">>),
                 IF is_catch_all(n)
                 THEN _generate_struct_base_class_deserializer(di + SwiftDent, namespace, n)
                 ELSE emit(di + SwiftDent, <<"fatalError(\"Unknown tag \\(tag)\")">>)>>))>>)

\* the body of serialize (swift.babelg.py:398-412)
StructSerializeBody(d, namespace, n) ==
    LET fs == all_fields(n)
    IN Chain(d, <<
         IF fs = <<>> THEN emit(d, <<"var output = [String : JSON]()">>)
         ELSE Chain(d, <<
                emit(d, <<"var output = [ ">>),
                Chain(d, [i \in 1..Len(fs) |->
                            emit(d, <<"\"", fs[i].name, "\": ">>
                                    \o _serializer_obj(fs[i].data_type, None)
                                    \o <<".serialize(value.", format_variable(fs[i].name),
                                         "),">>)]),
                emit(d, <<"]">>),
                IF has_enumerated_subtypes(n)
                THEN _generate_enumerated_subtype_serializer(d, namespace, n)
                ELSE Nothing(d)>>),
         emit(d, <<"return .Dictionary(output)">>)>>)

\* the body of deserialize (swift.babelg.py:414-423)
StructDeserializeBody(d, namespace, n) ==
    LET di == d + SwiftDent
    IN block(d, <<"switch json">>,
             Chain(di, <<
               emit(di, <<"case .Dictionary(let dict):">>),
               IF has_enumerated_subtypes(n)
               THEN _generate_enumerated_subtype_deserializer(di + SwiftDent, namespace, n)
               ELSE _generate_struct_base_class_deserializer(di + SwiftDent, namespace, n),
               emit(di, <<"default:">>),
               emit(di + SwiftDent, <<"assert(false, \"Type error deserializing\")">>)>>))

\* _generate_struct_class_serializer
_generate_struct_class_serializer(d, namespace, n) ==
    LET di == d + SwiftDent
    IN serializer_block(d, n,
         Chain(di, <<
           serializer_func(di, n, StructSerializeBody(di + SwiftDent, namespace, n)),
           deserializer_func(di, n, StructDeserializeBody(di + SwiftDent, namespace, n))>>))

\* the doc comment of a struct (swift.babelg.py:274-282)
StructDocLines(d, n) ==
    LET data_type == TypeDef(n)
        fs == data_type.fields
    IN Chain(d, <<
         IF data_type.doc # "" THEN emit(d, <<"/// ", data_type.doc>>)
         ELSE emit(d, <<"/// The ", class_data_type(n), " struct">>),
         emit(d, <<"///">>),
         Chain(d, [i \in 1..Len(fs) |->
                     Chain(d, <<emit(d, <<"/// :param: ", format_variable(fs[i].name)>>),
                                IF fs[i].doc # "" THEN emit(d, <<"///        ", fs[i].doc>>)
                                ELSE Nothing(d)>>)])>>)

\* _generate_struct_class
_generate_struct_class(d, namespace, n) ==
    LET data_type == TypeDef(n)
        fs == data_type.fields
        di == d + SwiftDent
        decl == IF data_type.parent_type = None THEN "public var"
                ELSE "public override var"
    IN Chain(d, <<
         StructDocLines(d, n),
         class_block_type(d, n, <<<<"Printable">>>>,
           Chain(di, <<
             Chain(di, [i \in 1..Len(fs) |->
                          emit(di, <<"public let ", format_variable(fs[i].name), " : ">>
                                   \o _swift_type_mapping(fs[i].data_type, None, FALSE))]),
             _generate_struct_init(di, namespace, n),
             block(di, <<decl, " description : String">>,
                   emit(di + SwiftDent,
                        <<"return \"\\(prepareJSONForSerialization(",
                          class_data_type(n), "Serializer().serialize(self)))\"">>))>>)),
         _generate_struct_class_serializer(d, namespace, n)>>)

----------------------------------------------------------------------------
(* SwiftGenerator: unions, routes and the namespace module.                *)

\* _format_tag_type
_format_tag_type(namespace, data_type) ==
    IF is_void_type(data_type) THEN <<>>
    ELSE <<"(">> \o _swift_type_mapping(data_type, namespace, FALSE) \o <<")">>

\* _tag_type
_tag_type(n, field) == <<class_data_type(n), ".", format_class(field.name)>>

\* one case of the union's serialize (swift.babelg.py:463-479)
UnionSerializeCase(d, field) ==
    LET field_type == IF is_nullable_type(field.data_type) THEN field.data_type.data_type
                      ELSE field.data_type
        case0 == <<".", format_class(field.name)>>
        tagd == <<"\".tag\": .Str(\"", field.name, "\")">>
        case == IF ~is_void_type(field_type) THEN case0 \o <<"(let arg)">> ELSE case0
        dd == IF ~is_void_type(field_type)
              THEN <<tagd, <<"\"", field.name, "\": ">>
                           \o _serializer_obj(field.data_type, None)
                           \o <<".serialize(arg)">>>>
              ELSE <<tagd>>
    IN Chain(d, <<emit(d, <<"case ">> \o case \o <<":">>),
                  emit(d + SwiftDent, <<"return ", ".Dictionary([">>
                                      \o Join(<<", ">>, dd) \o <<"])">>)>>)

\* a case of the union's deserialize that never reads the payload
UnionDeserializeCaseTagOnly(d, n, field) ==
    Chain(d, <<emit(d, <<"case \"", field.name, "\":">>),
               emit(d + SwiftDent, <<"return ">> \o _tag_type(n, field))>>)

\* one case of the union's deserialize (swift.babelg.py:486-501)
UnionDeserializeCase(d, n, field) ==
    LET field_type == IF is_nullable_type(field.data_type) THEN field.data_type.data_type
                      ELSE field.data_type
        tag_type == _tag_type(n, field)
        di == d + SwiftDent
    IN Chain(d, <<
         emit(d, <<"case \"", field.name, "\":">>),
         IF is_void_type(field_type) THEN emit(di, <<"return ">> \o tag_type)
         ELSE Chain(di, <<
                emit(di, <<"let v = ">> \o _serializer_obj(field_type, None)
                         \o <<".deserialize(d[\"", field.name, "\"] ?? .Null)">>),
                emit(di, <<"return ">> \o tag_type \o <<"(v)">>)>>)>>)

\* the field of a union named by catch_all_field
CatchAllField(n) ==
    LET fs == TypeDef(n).fields
    IN fs[CHOOSE i \in 1..Len(fs) : fs[i].name = TypeDef(n).catch_all_field]

\* _generate_union_serializer
_generate_union_serializer(d, n) ==
    LET fs == TypeDef(n).fields
        d1 == d + SwiftDent
        d2 == d1 + SwiftDent
        d3 == d2 + SwiftDent
        d4 == d3 + SwiftDent
        d5 == d4 + SwiftDent
    IN serializer_block(d, n,
         Chain(d1, <<
           serializer_func(d1, n,
             block(d2, <<"switch value">>,
                   Chain(d3, [i \in 1..Len(fs) |-> UnionSerializeCase(d3, fs[i])]))),
           deserializer_func(d1, n,
             block(d2, <<"switch json">>,
               Chain(d3, <<
                 emit(d3, <<"case .Dictionary(let d):">>),
                 emit(d4, <<"let tag = Serialization.getTag(d)">>),
                 block(d4, <<"switch tag">>,
                   Chain(d5, <<
                     Chain(d5, [i \in 1..Len(fs) |-> UnionDeserializeCase(d5, n, fs[i])]),
                     emit(d5, <<"default:">>),
                     IF TypeDef(n).catch_all_field # None
                     THEN emit(d5 + SwiftDent,
                               <<"return ">> \o _tag_type(n, CatchAllField(n)))
                     ELSE emit(d5 + SwiftDent, <<"fatalError(\"Unknown tag \\(tag)\")">>)
                   >>)),
                 emit(d3, <<"default:">>),
                 emit(d4, <<"assert(false, \"Failed to deserialize\")">>)>>)))>>))

\* _generate_union_type
Swift_generate_union_type(d, namespace, n) ==
    LET data_type == TypeDef(n)
        fs == data_type.fields
        di == d + SwiftDent
    IN Chain(d, <<
         IF data_type.doc # "" THEN emit(d, <<"/// ", data_type.doc>>)
         ELSE emit(d, <<"/// The ", class_data_type(n), " union">>),
         emit(d, <<"///">>),
         Chain(d, [i \in 1..Len(fs) |->
                     Chain(d, <<emit(d, <<"/// - ", format_class(fs[i].name),
                                          IF fs[i].doc # "" THEN ":" ELSE "">>),
                                IF fs[i].doc # "" THEN emit(d, <<"///   ", fs[i].doc>>)
                                ELSE Nothing(d)>>)]),
         block(d, <<"public enum ", class_data_type(n), " : Printable">>,
           Chain(di, <<
             Chain(di, [i \in 1..Len(fs) |->
                          emit(di, <<"case ", format_class(fs[i].name)>>
                                   \o _format_tag_type(namespace, fs[i].data_type))]),
             block(di, <<"public var description : String">>,
                   emit(di + SwiftDent,
                        <<"return \"\\(prepareJSONForSerialization(",
                          class_data_type(n), "Serializer().serialize(self)))\"">>))>>)),
         _generate_union_serializer(d, n)>>)

\* route.attrs.get(key, default); attrs is a sequence of <<key, value>>
AttrsGet(attrs, key, default) ==
    LET hits == {i \in 1..Len(attrs) : attrs[i][1] = key}
    IN IF hits = {} THEN default ELSE attrs[CHOOSE i \in hits : TRUE][2]

\* STYLE_MAPPING (swift.babelg.py:521-525): a style it does not hold is a KeyError
STYLE_MAPPING(style) ==
    CASE style = None -> "Rpc"
      [] style = "upload" -> "Upload"
      [] style = "download" -> "Download"
      [] OTHER -> "!KeyError"

\* a parameter list that puts the payload of an upload first
RouteArgListBodyFirst(namespace, route) ==
    LET request_type == _swift_type_mapping(route.arg_data_type, namespace, FALSE)
        route_style == AttrsGet(route.attrs, "style", None)
    IN (IF route_style = "upload" THEN <<<<"body", <<"NSData">>>>>> ELSE <<>>)
       \o (IF is_struct_type(route.arg_data_type)
           THEN _struct_init_args(route.arg_data_type.name, namespace)
           ELSE IF is_void_type(route.arg_data_type) THEN <<>>
           ELSE <<<<"request", request_type>>>>)

\* the wrapper's parameters (swift.babelg.py:532-542); the route's request,
\* response and error types are arg_data_type, result_data_type, error_data_type
RouteArgList(namespace, route) ==
    LET request_type == _swift_type_mapping(route.arg_data_type, namespace, FALSE)
        route_style == AttrsGet(route.attrs, "style", None)
    IN (IF is_struct_type(route.arg_data_type)
        THEN _struct_init_args(route.arg_data_type.name, namespace)
        ELSE IF is_void_type(route.arg_data_type) THEN <<>>
        ELSE <<<<"request", request_type>>>>)
       \o (IF route_style = "upload" THEN <<<<"body", <<"NSData">>>>>> ELSE <<>>)

\* the documented parameters (swift.babelg.py:534-542)
RouteDocList(route) ==
    LET fs == IF is_struct_type(route.arg_data_type)
              THEN TypeDef(route.arg_data_type.name).fields ELSE <<>>
        route_style == AttrsGet(route.attrs, "style", None)
    IN SelectSeq([i \in 1..Len(fs) |-> <<format_variable(fs[i].name), fs[i].doc>>],
                 LAMBDA p : p[2] # "")
       \o (IF route_style = "upload"
           THEN <<<<"body", "The binary payload to upload">>>> ELSE <<>>)

\* a returned request that passes the payload whatever the style
RouteFuncArgsAlwaysBody(namespace, route) ==
    LET host_ident == AttrsGet(route.attrs, "host", "meta")
    IN <<<<"client", <<"self">>>>,
         <<"host", <<"\"", host_ident, "\"">>>>,
         <<"route", <<"\"/", namespace, "/", route.name, "\"">>>>,
         <<"params", _serializer_obj(route.arg_data_type, namespace)
                     \o <<".serialize(",
                          IF is_void_type(route.arg_data_type) THEN "" ELSE "request",
                          ")">>>>,
         <<"body", <<"body">>>>,
         <<"responseSerializer", _serializer_obj(route.result_data_type, namespace)>>,
         <<"errorSerializer", _serializer_obj(route.error_data_type, namespace)>>>>

\* the arguments of the returned request (swift.babelg.py:572-588)
RouteFuncArgs(namespace, route) ==
    LET host_ident == AttrsGet(route.attrs, "host", "meta")
        route_style == AttrsGet(route.attrs, "style", None)
    IN <<<<"client", <<"self">>>>,
         <<"host", <<"\"", host_ident, "\"">>>>,
         <<"route", <<"\"/", namespace, "/", route.name, "\"">>>>,
         <<"params", _serializer_obj(route.arg_data_type, namespace)
                     \o <<".serialize(",
                          IF is_void_type(route.arg_data_type) THEN "" ELSE "request",
                          ")">>>>>>
       \o (IF route_style = "upload" THEN <<<<"body", <<"body">>>>>> ELSE <<>>)
       \o <<<<"responseSerializer", _serializer_obj(route.result_data_type, namespace)>>,
            <<"errorSerializer", _serializer_obj(route.error_data_type, namespace)>>>>

\* _generate_route
_generate_route(d, namespace, route) ==
    LET request_type == _swift_type_mapping(route.arg_data_type, namespace, FALSE)
        arg_list == RouteArgList(namespace, route)
        doc_list == RouteDocList(route)
        func_name == <<format_method(namespace), Capitalize(route.name)>>
        route_type == STYLE_MAPPING(AttrsGet(route.attrs, "style", None))
        rtype == _swift_type_mapping(route.result_data_type, namespace, TRUE)
        etype == _swift_type_mapping(route.error_data_type, namespace, TRUE)
        di == d + SwiftDent
        cargs == IF is_struct_type(route.arg_data_type)
                 THEN LET ia == _struct_init_args(route.arg_data_type.name, None)
                      IN [i \in 1..Len(ia) |-> <<ia[i][1], <<ia[i][1]>>>>]
                 ELSE <<>>
    IN IF Unbound \in Range(request_type) \/ HasUnbound(arg_list)
       THEN Raise(d, "UnboundLocalError")
       ELSE Chain(d, <<
         IF route.doc # "" THEN emit(d, <<"/// ", route.doc>>)
         ELSE emit(d, <<"/// The ">> \o func_name \o <<" route">>),
         emit(d, <<"///">>),
         Chain(d, [i \in 1..Len(doc_list) |->
                     Chain(d, <<emit(d, <<"/// :param: ", doc_list[i][1]>>),
                                IF doc_list[i][2] # ""
                                THEN emit(d, <<"///        ", doc_list[i][2]>>)
                                ELSE Nothing(d)>>)]),
         IF route_type = "!KeyError" THEN Raise(d, "KeyError") ELSE Nothing(d),
         IF Unbound \in Range(rtype) \/ Unbound \in Range(etype)
         THEN Raise(d, "UnboundLocalError") ELSE Nothing(d),
         function_block(d, <<"public func ">> \o func_name,
                        _func_args(arg_list, TRUE),
                        <<"Babel", route_type, "Request<">> \o rtype \o <<", ">> \o etype
                        \o <<">">>,
           Chain(di, <<
             IF is_struct_type(route.arg_data_type)
             THEN emit(di, <<"let request = ">> \o request_type \o <<"(">>
                           \o _func_args(cargs, FALSE) \o <<")">>)
             ELSE Nothing(di),
             emit(di, <<"return Babel", route_type, "Request(">>
                      \o _func_args(RouteFuncArgs(namespace, route), FALSE)
                      \o <<")">>)>>))>>)

\* _generate_routes
_generate_routes(d, ns) ==
    IF Len(ns.routes) = 0 THEN Nothing(d)
    ELSE block(d, <<"extension BabelClient">>,
               Chain(d + SwiftDent,
                     [i \in 1..Len(ns.routes) |->
                        _generate_route(d + SwiftDent, ns.name, ns.routes[i])]))

\* base (swift.babelg.py:33-37)
base == <<NL, "/* Autogenerated. Do not edit. */", NL, NL, "import Foundation", NL>>

\* the dispatch on one data type (swift.babelg.py:68-73): a type that is no
\* struct and no union falls through, the 'else: raise' being commented out
SwiftGenerateDataType(d, namespace, n) ==
    IF is_struct_type(Ref(n)) THEN _generate_struct_class(d, namespace, n)
    ELSE IF is_union_type(Ref(n)) THEN Swift_generate_union_type(d, namespace, n)
    ELSE Nothing(d)

\* SwiftGenerator._generate_base_namespace_module
Swift_generate_base_namespace_module(ns) ==
    LET dts == linearize_data_types(ns)
    IN Chain(0, <<
         emit_raw(0, base),
         block(0, <<"public class ", format_class(ns.name)>>,
               Chain(SwiftDent, [i \in 1..Len(dts) |->
                                   SwiftGenerateDataType(SwiftDent, ns.name, dts[i])])),
         _generate_routes(0, ns)>>)

----------------------------------------------------------------------------
(* The inputs of a run: the IRs, command lines and templates explored.     *)

\* the types every IR below draws on; the knobs are what the families vary
Types(pFields, qFields, rFields, xSubtypes, catch_all, variants, catch_all_field) ==
    [n \in {"P", "Q", "R", "X", "Y", "Z", "U", "A", "O"} |->
        CASE n = "P" -> Struct("P", None, pFields, <<>>, FALSE, FALSE, "")
          [] n = "Q" -> Struct("Q", "P", qFields, <<>>, FALSE, FALSE, "")
          [] n = "R" -> Struct("R", None, rFields,
                               <<[name |-> "x", data_type |-> "X"],
                                 [name |-> "y", data_type |-> "Y"]>>,
                               catch_all, TRUE, "")
          [] n = "X" -> Struct("X", "R", <<>>, xSubtypes, FALSE, TRUE, "")
          [] n = "Y" -> Struct("Y", "R", <<Field("c", Boolean, FALSE, NoDefault, "")>>,
                               <<>>, FALSE, TRUE, "")
          [] n = "Z" -> Struct("Z", "X", <<>>, <<>>, FALSE, TRUE, "")
          [] n = "U" -> Union("U", None, variants, catch_all_field, "")
          [] n = "A" -> Alias("A", Ref("P"), "")
          [] OTHER -> Other("O")]

DefaultFields ==
    <<Field("a", Int32, FALSE, NoDefault, ""),
      Field("b", Nullable(String), FALSE, NoDefault, "")>>
DefaultVariants ==
    <<Field("x", Void, FALSE, NoDefault, ""),
      Field("y", String, FALSE, NoDefault, ""),
      Field("other", Void, FALSE, NoDefault, "")>>
DefaultTypes ==
    Types(DefaultFields, <<>>, <<Field("a", String, FALSE, NoDefault, "")>>, <<>>,
          FALSE, DefaultVariants, "other")

\* the template of the splice example: "A\n/*TYPES*/\nB\n"
DefaultTemplate == <<"A", NL>> \o Marker \o <<NL, "B", NL>>

DefaultArgs ==
    [filename |-> "out.d.ts", exclude_error_types |-> TRUE, extra_arg |-> <<>>,
     indent_level |-> 1, spaces_per_indent |-> 2, module_name_prefix |-> "",
     export_namespaces |-> FALSE]

NsEmpty == Namespace("other", "", <<>>, <<>>, <<>>, <<>>)
NsP == Namespace("ns", "", <<"P">>, <<>>, <<>>, <<>>)
NsU == Namespace("ns2", "doc", <<"U">>, <<"A">>, <<>>, <<"ns">>)

\* the templates: text, marker, text; and texts without the marker
TemplateChars == {"A", NL}
Templates ==
    {pre \o Marker \o post : pre \in SeqsUpTo(TemplateChars, MaxTemplatePart),
                             post \in SeqsUpTo(TemplateChars, MaxTemplatePart)}
    \cup SeqsUpTo(TemplateChars, MaxTemplatePart)
    \cup {DefaultTemplate, <<"A">> \o Marker \o <<"B">>}

TemplateApis ==
    {[namespaces |-> nss, types |-> DefaultTypes] :
        nss \in {<<>>, <<NsEmpty>>, <<NsP>>, <<NsEmpty, NsP>>, <<NsP, NsU>>}}

InitRun(b, a, ar, tf) ==
    /\ backend = b
    /\ api = a
    /\ args = ar
    /\ template_file = tf
    /\ pc = "generate"
    /\ template = <<>>
    /\ extra_args = EmptyMap
    /\ split_by_namespace = FALSE
    /\ units = <<>>
    /\ output_buffer = <<>>
    /\ cur_indent = 0
    /\ files = <<>>
    /\ stderr = <<>>
    /\ fault = ""

\* runs of the TypeScript backend over templates and output modes
InitTemplates ==
    \E a \in TemplateApis, t \in Templates, fn \in {"", "out.d.ts"}, ex \in BOOLEAN :
        InitRun("tsd", a,
                [DefaultArgs EXCEPT !.filename = fn, !.exclude_error_types = ex],
                [exists |-> TRUE, text |-> t])

\* a run whose template file does not exist
InitNoTemplate ==
    \E a \in TemplateApis :
        InitRun("tsd", a, DefaultArgs, [exists |-> FALSE, text |-> <<>>])

----------------------------------------------------------------------------
(* The run of the TypeScript backend: TSDTypesBackend.generate.            *)

Fail(err) ==
    /\ pc' = "fault"
    /\ fault' = err

\* generate, line 166: extra_args = self._parse_extra_args(api, extra_arg)
ParseExtraArgs ==
    /\ pc = "generate"
    /\ backend = "tsd"
    /\ LET r == _parse_extra_args(api, args.extra_arg)
       IN /\ stderr' = stderr \o r.stderr
          /\ IF r.status = "ok"
             THEN pc' = "read_template" /\ extra_args' = r.result /\ fault' = fault
             ELSE Fail(r.status) /\ extra_args' = extra_args
    /\ UNCHANGED <<backend, api, args, template_file, template, split_by_namespace,
                   units, output_buffer, cur_indent, files>>

\* the output units generate() asks for (tsd_types.py:168-179)
TsdUnits ==
    IF args.filename # ""
    THEN <<[filename |-> <<args.filename>>, namespace_list |-> api.namespaces]>>
    ELSE [i \in 1..Len(api.namespaces) |->
            [filename |-> <<api.namespaces[i].name, ".d.ts">>,
             namespace_list |-> <<api.namespaces[i]>>]]

\* generate, lines 167-175: _read_template and the choice of the mode
ReadTemplate ==
    /\ pc = "read_template"
    /\ IF template_file.exists
       THEN /\ template' = template_file.text
            /\ split_by_namespace' = (args.filename = "")
            /\ units' = TsdUnits
            /\ pc' = IF TsdUnits = <<>> THEN "done" ELSE "units"
            /\ fault' = fault
       ELSE /\ Fail("AssertionError: TypeScript template file does not exist.")
            /\ UNCHANGED <<template, split_by_namespace, units>>
    /\ UNCHANGED <<backend, api, args, template_file, extra_args, output_buffer,
                   cur_indent, files, stderr>>

\* one call of _generate_base_namespace_module from generate
TsdGenerateUnit ==
    /\ pc = "units"
    /\ backend = "tsd"
    /\ units # <<>>
    /\ LET u == Head(units)
           g == _generate_base_namespace_module(u.namespace_list, template, extra_args,
                                                args.exclude_error_types,
                                                split_by_namespace)
       IN IF g.skipped
          THEN /\ units' = Tail(units)
               /\ pc' = IF Tail(units) = <<>> THEN "done" ELSE "units"
               /\ UNCHANGED <<output_buffer, cur_indent, files, fault>>
          ELSE IF g.r.e # ""
          THEN /\ Fail(g.r.e)
               /\ output_buffer' = g.r.l
               /\ cur_indent' = g.r.d
               /\ UNCHANGED <<units, files>>
          ELSE /\ files' = Append(files, [path |-> u.filename, text |-> g.r.l])
               /\ output_buffer' = <<>>
               /\ cur_indent' = g.r.d
               /\ units' = Tail(units)
               /\ pc' = IF Tail(units) = <<>> THEN "done" ELSE "units"
               /\ fault' = fault
    /\ UNCHANGED <<backend, api, args, template_file, template, extra_args,
                   split_by_namespace, stderr>>

----------------------------------------------------------------------------
(* The run of the Swift generator: SwiftGenerator.generate.                *)

\* the three support files generate copies first (swift.babelg.py:45-56)
SupportFiles ==
    <<[path |-> <<"BabelSerializers.swift">>, text |-> <<Raw(<<"BabelSerializers">>)>>],
      [path |-> <<"BabelValidators.swift">>, text |-> <<Raw(<<"BabelValidators">>)>>],
      [path |-> <<"Client.swift">>, text |-> <<Raw(<<"Client">>)>>]>>

SwiftUnits ==
    [i \in 1..Len(api.namespaces) |->
        [filename |-> <<format_class(api.namespaces[i].name), ".swift">>,
         namespace_list |-> <<api.namespaces[i]>>]]

\* generate, lines 45-56: the support files are copied to the output folder
SwiftGenerate ==
    /\ pc = "generate"
    /\ backend = "swift"
    /\ files' = files \o SupportFiles
    /\ units' = SwiftUnits
    /\ pc' = IF SwiftUnits = <<>> THEN "done" ELSE "units"
    /\ UNCHANGED <<backend, api, args, template_file, template, extra_args,
                   split_by_namespace, output_buffer, cur_indent, stderr, fault>>

\* generate, lines 58-61: one namespace is generated into its file
SwiftGenerateUnit ==
    /\ pc = "units"
    /\ backend = "swift"
    /\ units # <<>>
    /\ LET u == Head(units)
           r == Swift_generate_base_namespace_module(u.namespace_list[1])
       IN IF r.e # ""
          THEN /\ Fail(r.e)
               /\ output_buffer' = r.l
               /\ cur_indent' = r.d
               /\ UNCHANGED <<units, files>>
          ELSE /\ files' = Append(files, [path |-> u.filename, text |-> r.l])
               /\ output_buffer' = <<>>
               /\ cur_indent' = r.d
               /\ units' = Tail(units)
               /\ pc' = IF Tail(units) = <<>> THEN "done" ELSE "units"
               /\ fault' = fault
    /\ UNCHANGED <<backend, api, args, template_file, template, extra_args,
                   split_by_namespace, stderr>>

----------------------------------------------------------------------------
(* The families of runs.                                                   *)

GoodTemplate == [exists |-> TRUE, text |-> DefaultTemplate]
Backends == {"tsd", "swift"}

FieldNames == <<"a", "b", "c", "d">>
FieldTypes == {Int32, String, Nullable(String)}
DefaultOf(t) ==
    IF t.kind = "Int32" THEN Lit("0")
    ELSE IF t.kind = "String" THEN Lit("\"s\"")
    ELSE Lit("nil")
FieldChoices == [t : FieldTypes, hd : BOOLEAN, doc : {"", "doc"}]
FieldSeqs ==
    UNION {{[i \in 1..k |->
               Field(FieldNames[i], c[i].t, c[i].hd,
                     IF c[i].hd THEN DefaultOf(c[i].t) ELSE NoDefault, c[i].doc)] :
            c \in [1..k -> FieldChoices]} : k \in 0..MaxFields}

NsPQ == Namespace("ns", "", <<"P", "Q">>, <<>>, <<>>, <<>>)

\* both backends over a struct P with every choice of fields, and its child Q
InitFields ==
    \E b \in Backends, pf \in FieldSeqs :
        InitRun(b,
                [namespaces |-> <<NsPQ>>,
                 types |-> Types(pf, <<>>, <<>>, <<>>, FALSE, DefaultVariants, "other")],
                DefaultArgs, GoodTemplate)

OneField == <<Field("a", String, FALSE, NoDefault, "")>>
SubtypeZ == <<[name |-> "z", data_type |-> "Z"]>>

\* both backends over the enumerated-subtypes tree R -> {x: X, y: Y}, X -> {z: Z}
InitTrees ==
    \E b \in Backends, catch \in BOOLEAN, rf \in {<<>>, OneField},
       xs \in {<<>>, SubtypeZ}, qf \in {<<>>, <<Field("d", Boolean, FALSE, NoDefault, "")>>},
       dts \in {<<"R", "X", "Y">>, <<"R", "X", "Y", "Z">>, <<"P", "Q", "R", "X", "Y">>} :
        InitRun(b,
                [namespaces |-> <<Namespace("ns", "", dts, <<>>, <<>>, <<>>)>>,
                 types |-> Types(DefaultFields, qf, rf, xs, catch, DefaultVariants, "other")],
                DefaultArgs, GoodTemplate)

\* the --extra-arg options: three well-formed, the others each failing one check
Good1 == RawArg("object", JList(<<JStr("host"), JStr("content")>>), JStr("sel_user"),
                JStr("string"), JAbsent)
Good1b == RawArg("object", JList(<<JStr("host"), JStr("content")>>), JStr("sel_admin"),
                 JStr("string"), JStr("doc"))
Good2 == RawArg("object", JList(<<JStr("style"), JStr("upload")>>), JStr("contents"),
                JStr("Object"), JAbsent)
RawArgs ==
    {Good1, Good1b, Good2,
     RawArg("invalid", JAbsent, JAbsent, JAbsent, JAbsent),
     RawArg("number", JAbsent, JAbsent, JAbsent, JAbsent),
     [Good1 EXCEPT !.match = JAbsent],
     [Good1 EXCEPT !.match = JStr("host")],
     [Good1 EXCEPT !.match = JList(<<JStr("host")>>)],
     [Good1 EXCEPT !.match = JList(<<JStr("host"), JNum>>)],
     [Good1 EXCEPT !.arg_name = JAbsent],
     [Good1 EXCEPT !.arg_name = JNum],
     [Good1 EXCEPT !.arg_type = JAbsent],
     [Good1 EXCEPT !.arg_type = JNum],
     [Good1 EXCEPT !.arg_docstring = JNum]}

HostContent == <<<<"host", "content">>>>
RouteNames == <<"get", "put", "del">>
RouteArgTypes == {Ref("P"), Ref("U"), Void, String}

NsRoutes(routes) == Namespace("ns", "", <<"P", "U">>, <<>>, routes, <<>>)

\* the TypeScript backend over every short list of --extra-arg options
InitExtraArgs ==
    \E raws \in SeqsUpTo(RawArgs, MaxExtraArgs) :
        InitRun("tsd",
                [namespaces |->
                    <<NsRoutes(<<Route("get", Ref("P"), Void, Void, HostContent, "")>>)>>,
                 types |-> DefaultTypes],
                [DefaultArgs EXCEPT !.extra_arg = raws], GoodTemplate)

\* the TypeScript backend over one route of every kind of argument type
InitExtraArgKinds ==
    \E raws \in {<<>>, <<Good1>>, <<Good2, Good1>>}, arg \in RouteArgTypes :
        InitRun("tsd",
                [namespaces |->
                    <<NsRoutes(<<Route("get", arg, Void, Void, HostContent, "")>>)>>,
                 types |-> DefaultTypes],
                [DefaultArgs EXCEPT !.extra_arg = raws], GoodTemplate)

RouteSeqs(choices, n) ==
    UNION {{[i \in 1..k |-> Route(RouteNames[i], c[i].arg, String, Ref("U"), c[i].attrs, "")] :
            c \in [1..k -> choices]} : k \in 0..n}

TsdRouteChoices ==
    [arg : {Ref("P"), Ref("U")},
     attrs : {<<>>, HostContent, <<<<"host", "content">>, <<"style", "upload">>>>,
              <<<<"host", "notify">>>>}]
SwiftRouteChoices ==
    [arg : RouteArgTypes,
     attrs : {<<>>, HostContent, <<<<"host", "content">>, <<"style", "upload">>>>,
              <<<<"style", "rpc">>>>, <<<<"style", "download">>, <<"host", "notify">>>>}]

\* the TypeScript backend over every short list of routes, the Swift generator
\* over every route
InitRoutes ==
    \/ \E routes \in RouteSeqs(TsdRouteChoices, MaxRoutes),
          raws \in {<<Good1>>, <<Good1, Good2>>, <<Good1, Good1b>>} :
          InitRun("tsd", [namespaces |-> <<NsRoutes(routes)>>, types |-> DefaultTypes],
                  [DefaultArgs EXCEPT !.extra_arg = raws], GoodTemplate)
    \/ \E routes \in RouteSeqs(SwiftRouteChoices, 1) :
          InitRun("swift", [namespaces |-> <<NsRoutes(routes)>>, types |-> DefaultTypes],
                  DefaultArgs, GoodTemplate)

\* both backends over an IR that holds a data type of no recognised variant:
\* as a named type of the namespace, or as the type of a field
InitUnsupported ==
    \/ \E b \in Backends, dts \in {<<"O">>, <<"P", "O">>, <<"O", "P">>} :
          InitRun(b, [namespaces |-> <<Namespace("ns", "", dts, <<>>, <<>>, <<>>)>>,
                      types |-> DefaultTypes],
                  DefaultArgs, GoodTemplate)
    \/ \E b \in Backends,
          t \in {Unsupported, Nullable(Unsupported), List(Unsupported, None, None)} :
          InitRun(b, [namespaces |-> <<NsPQ>>,
                      types |-> Types(<<Field("a", String, FALSE, NoDefault, ""),
                                        Field("b", t, FALSE, NoDefault, "")>>,
                                      <<>>, <<>>, <<>>, FALSE, DefaultVariants, "other")],
                  DefaultArgs, GoodTemplate)

VariantNames == <<"x", "y", "z", "w">>
VariantTypes == {Void, String, Nullable(String), Ref("P"), Ref("R")}
VariantSeqs ==
    UNION {{[i \in 1..k |-> Field(VariantNames[i], c[i], FALSE, NoDefault, "")] :
            c \in [1..k -> VariantTypes]} : k \in 0..MaxVariants}

\* the catch-all variants a union of these variants may declare: none, or
\* its first variant when that is void
CatchAllChoices(variants) ==
    {None} \cup (IF variants # <<>> /\ is_void_type(variants[1].data_type)
                 THEN {variants[1].name} ELSE {})

\* the types of the union family: U with the given variants, catch-all and
\* parent, and the union V a union may extend
UnionTypes(variants, catch_all_field, parent) ==
    [n \in DOMAIN DefaultTypes \cup {"V"} |->
        CASE n = "U" -> Union("U", parent, variants, catch_all_field, "")
          [] n = "V" -> Union("V", None, <<Field("v", Void, FALSE, NoDefault, "")>>,
                              None, "")
          [] OTHER -> DefaultTypes[n]]

\* both backends over a union U with every short list of variants
InitUnions ==
    \E b \in Backends, vs \in VariantSeqs, parent \in {None, "V"} :
        \E caf \in CatchAllChoices(vs) :
            InitRun(b,
                    [namespaces |-> <<Namespace("ns", "", <<"U">>, <<>>, <<>>, <<>>)>>,
                     types |-> UnionTypes(vs, caf, parent)],
                    DefaultArgs, GoodTemplate)

\* the field lists of a request struct: those of FieldSeqs without doc comments
RequestFieldSeqs == {fs \in FieldSeqs : \A i \in 1..Len(fs) : fs[i].doc = ""}

\* the Swift generator over one route whose request is the struct P, with
\* every choice of fields, or its child Q
InitRouteRequests ==
    \E pf \in RequestFieldSeqs, qf \in {<<>>, <<Field("d", Boolean, FALSE, NoDefault, "")>>},
       req \in {"P", "Q"}, attrs \in {<<>>, <<<<"style", "upload">>>>} :
        InitRun("swift",
                [namespaces |->
                    <<Namespace("ns", "", <<"P", "Q", "U">>, <<>>,
                                <<Route("get", Ref(req), String, Ref("U"), attrs, "")>>,
                                <<>>)>>,
                 types |-> Types(pf, qf, <<>>, <<>>, FALSE, DefaultVariants, "other")],
                DefaultArgs, GoodTemplate)

RECURSIVE WrappedTypes(_)
\* the types of at most n Nullable and List wrappers over a primitive or a
\* composite base; a Nullable wraps no Nullable (the IR does not build one)
WrappedTypes(n) ==
    IF n = 0 THEN {String, Int32, Ref("P"), Ref("U")}
    ELSE LET W == WrappedTypes(n - 1)
         IN W \cup {List(t, None, None) : t \in W}
              \cup {Nullable(t) : t \in {u \in W : u.kind # "Nullable"}}

\* the Swift generator over one route whose request and response are of a
\* wrapped type
InitWrappedTypes ==
    \E t \in WrappedTypes(MaxWrappers) :
        InitRun("swift",
                [namespaces |->
                    <<Namespace("ns", "", <<"P", "U">>, <<>>,
                                <<Route("get", t, t, Void, <<>>, "")>>, <<>>)>>,
                 types |-> DefaultTypes],
                DefaultArgs, GoodTemplate)

\* the element types of the bounded lists: with a validator of their own
\* (String, Int32, a list of strings) and without (Boolean, a struct, a union)
ListItemTypes == {String, Int32, Boolean, Ref("Q"), Ref("U"), List(String, None, None)}
ListBounds == [min_items : {None, "1"}, max_items : {None, "3"}]

\* the Swift generator over a struct P whose field is a list of every element
\* type, with and without bounds, nullable or not
InitBoundedLists ==
    \E item \in ListItemTypes, bd \in ListBounds, nullable \in BOOLEAN :
        LET list == List(item, bd.min_items, bd.max_items)
        IN InitRun("swift",
                   [namespaces |-> <<NsPQ>>,
                    types |-> Types(<<Field("a", IF nullable THEN Nullable(list) ELSE list,
                                            FALSE, NoDefault, ""),
                                      Field("b", Int32, FALSE, NoDefault, "")>>,
                                    <<>>, <<>>, <<>>, FALSE, DefaultVariants, "other")],
                   DefaultArgs, GoodTemplate)

Init ==
    \/ InitTemplates
    \/ InitNoTemplate
    \/ InitFields
    \/ InitTrees
    \/ InitExtraArgs
    \/ InitExtraArgKinds
    \/ InitRoutes
    \/ InitUnsupported
    \/ InitUnions
    \/ InitRouteRequests
    \/ InitWrappedTypes
    \/ InitBoundedLists

Next ==
    \/ ParseExtraArgs
    \/ ReadTemplate
    \/ TsdGenerateUnit
    \/ SwiftGenerate
    \/ SwiftGenerateUnit

Spec == Init /\ [][Next]_vars

----------------------------------------------------------------------------
(* Reading the emitted text back.                                          *)

StartsWith(s, p) == Len(s) >= Len(p) /\ SubSeq(s, 1, Len(p)) = p

\* the least index from i on of an item of text that satisfies P, 0 if none
FirstFrom(text, i, P(_)) ==
    LET hits == {j \in i..Len(text) : P(text[j])}
    IN IF hits = {} THEN 0 ELSE CHOOSE j \in hits : \A k \in hits : j <= k

RECURSIVE SplitOn(_, _)
\* s split at every token sep
SplitOn(s, sep) ==
    LET hits == {j \in 1..Len(s) : s[j] = sep}
    IN IF hits = {} THEN <<s>>
       ELSE LET j == CHOOSE j \in hits : \A k \in hits : j <= k
            IN <<SubSeq(s, 1, j - 1)>> \o SplitOn(SubSeq(s, j + 1, Len(s)), sep)

\* the lines of 'export interface n ... { ... }' in a TypeScript text, <<>> if
\* the text declares no such interface
TsdInterface(text, n) ==
    LET h == FirstFrom(text, 1,
                       LAMBDA it : /\ StartsWith(it.toks, <<"export interface ", n>>)
                                   /\ Len(it.toks) >= 3
                                   /\ it.toks[3] \in {" {", " extends "})
        e == IF h = 0 THEN 0 ELSE FirstFrom(text, h + 1, LAMBDA it : it.toks = <<"}">>)
    IN IF e = 0 THEN <<>> ELSE SubSeq(text, h, e)

\* the properties an interface declares: name and whether it carries '?'
TsdProperties(text, n) ==
    LET b == TsdInterface(text, n)
    IN {[name |-> b[j].toks[1], optional |-> b[j].toks[2] = "?"] :
        j \in {j \in 1..Len(b) :
                 /\ Len(b[j].toks) >= 3
                 /\ \/ b[j].toks[2] = ": "
                    \/ b[j].toks[2] = "?" /\ b[j].toks[3] = ": "}}

\* the lines of 'public class N: ... {' in a Swift text up to the next class
SwiftClass(text, n) ==
    LET h == FirstFrom(text, 1,
                       LAMBDA it : StartsWith(it.toks, <<"public class ", Capitalize(n), ": ">>))
        e == IF h = 0 THEN 0
             ELSE FirstFrom(text, h + 1, LAMBDA it : StartsWith(it.toks, <<"public class ">>))
    IN IF h = 0 THEN <<>>
       ELSE SubSeq(text, h, IF e = 0 THEN Len(text) ELSE e - 1)

\* the parameters of the initializer a Swift class declares: name and whether
\* the parameter is given a default; {} when the class declares no initializer
SwiftInitParameters(text, n) ==
    LET c == SwiftClass(text, n)
        i == FirstFrom(c, 1, LAMBDA it : StartsWith(it.toks, <<"public init", "(">>))
        params == IF i = 0 THEN <<>>
                  ELSE SplitOn(SubSeq(c[i].toks, 3, Len(c[i].toks) - 2), ", ")
    IN {[name |-> params[j][1], optional |-> " = " \in Range(params[j])] :
        j \in {j \in 1..Len(params) : params[j] # <<>>}}

SwiftHasInit(text, n) ==
    LET c == SwiftClass(text, n)
    IN FirstFrom(c, 1, LAMBDA it : StartsWith(it.toks, <<"public init", "(">>)) # 0

StructNames == {n \in DOMAIN api.types : api.types[n].kind = "Struct"}

\* what the optionality law asks of a field
ShouldBeOptional(field) == field.data_type.kind = "Nullable" \/ field.has_default

----------------------------------------------------------------------------
(* Claims.                                                                 *)

\* C1: in every emitted file of either backend, each field of each emitted
\* struct is rendered exactly once, and it is rendered optional (TypeScript:
\* 'name?:'; Swift initializer: a parameter with '= default' or '= nil') if and
\* only if its type is Nullable or it has a declared default.
C1_OptionalityLaw ==
    \A k \in 1..Len(files) : \A n \in StructNames :
        LET text == files[k].text
            s == api.types[n]
        IN /\ (backend = "tsd" /\ TsdInterface(text, n) # <<>>) =>
                \A i \in 1..Len(s.fields) :
                    {r \in TsdProperties(text, n) : r.name = s.fields[i].name}
                    = {[name |-> s.fields[i].name,
                        optional |-> ShouldBeOptional(s.fields[i])]}
           /\ (backend = "swift" /\ SwiftClass(text, n) # <<>>) =>
                /\ s.fields # <<>> => SwiftHasInit(text, n)
                /\ SwiftHasInit(text, n) =>
                     \A i \in 1..Len(all_fields(n)) :
                        LET f == all_fields(n)[i]
                        IN {r \in SwiftInitParameters(text, n) : r.name = f.name}
                           = {[name |-> f.name, optional |-> ShouldBeOptional(f)]}

\* a Swift file whose struct P has a non-nullable field with a default, rendered
\* with a default value, beside a non-nullable field without one, rendered bare
C1_Witness ==
    /\ backend = "swift"
    /\ \E k \in 1..Len(files) :
          /\ SwiftHasInit(files[k].text, "P")
          /\ Len(api.types["P"].fields) = 2
          /\ api.types["P"].fields[1].has_default
          /\ api.types["P"].fields[1].data_type.kind # "Nullable"
          /\ ~ShouldBeOptional(api.types["P"].fields[2])
          /\ SwiftInitParameters(files[k].text, "P")
             = {[name |-> "a", optional |-> TRUE], [name |-> "b", optional |-> FALSE]}

----------------------------------------------------------------------------
(* The template splice.                                                    *)

\* the namespaces that went into the k-th file of a TypeScript run
FileNamespaces(k) ==
    IF args.filename # "" THEN api.namespaces
    ELSE SelectSeq(api.namespaces, LAMBDA ns : <<ns.name, ".d.ts">> = files[k].path)

\* the characters generated for the k-th file, each line with its line end
GeneratedBody(k) ==
    Flatten(TsdBody(FileNamespaces(k), template, extra_args, args.exclude_error_types,
                    split_by_namespace).l)

\* the template text before the first marker and after it
BeforeMarker(tpl) ==
    LET first == CHOOSE i \in MarkerPlaces(tpl) : \A j \in MarkerPlaces(tpl) : i <= j
    IN SubSeq(tpl, 1, first - 1)
AfterMarker(tpl) ==
    LET first == CHOOSE i \in MarkerPlaces(tpl) : \A j \in MarkerPlaces(tpl) : i <= j
    IN SubSeq(tpl, first + Len(Marker), Len(tpl))

\* C2: with the template "A\n/*TYPES*/\nB\n", every file is "A\n", the
\* generated body with its line end, "B\n": no newline is lost or duplicated
\* at either side of the splice point.
C2_SpliceExactness ==
    (backend = "tsd" /\ template = DefaultTemplate) =>
        \A k \in 1..Len(files) :
            Flatten(files[k].text) = <<"A", NL>> \o GeneratedBody(k) \o <<"B", NL>>

\* C3: for every template that holds the marker, every file is the template
\* text before the marker, the generated text (set off by at most one line
\* end), and the template text after the marker, whatever character follows
\* the marker; so the file ends as the template does.
C3_TemplatePreserved ==
    (backend = "tsd" /\ MarkerPlaces(template) # {}) =>
        \A k \in 1..Len(files) :
            \E sep \in {<<>>, <<NL>>} :
                Flatten(files[k].text)
                = BeforeMarker(template) \o sep \o GeneratedBody(k) \o AfterMarker(template)

\* C4: a TypeScript run whose template holds no marker never completes, for
\* every API with a namespace (with or without data types), and when it has
\* stopped on the fault no text has been emitted.
C4_MissingMarkerIsFatal ==
    (backend = "tsd" /\ template_file.exists /\ MarkerPlaces(template_file.text) = {}
     /\ api.namespaces # <<>>) =>
        /\ pc # "done"
        /\ pc = "fault" => (files = <<>> /\ output_buffer = <<>>)

----------------------------------------------------------------------------
(* Extra arguments.                                                        *)

\* the lines that declare a route's argument type in a TypeScript text: the
\* interface of a struct, the variants and the sum of a union, and nothing
\* for a type that is declared nowhere
ArgDeclaration(text, arg) ==
    IF arg.kind # "Ref" THEN <<>>
    ELSE IF api.types[arg.name].kind = "Struct" THEN TsdInterface(text, arg.name)
    ELSE LET h == FirstFrom(text, 1,
                            LAMBDA it : StartsWith(it.toks, <<"export interface ", arg.name>>))
             e == FirstFrom(text, 1,
                            LAMBDA it : StartsWith(it.toks, <<"export type ", arg.name>>))
         IN IF h = 0 \/ e = 0 THEN <<>> ELSE SubSeq(text, h, e)

\* C5: in a completed TypeScript run, for every route (the only one with
\* its argument type) and every configured rule (the only one with its match)
\* whose match is an attribute of the route, the declaration of the route's
\* argument type holds exactly one optional parameter with the rule's name
\* and type, whatever the kind of the argument type.
C5_ExtraArgInjected ==
    (backend = "tsd" /\ pc = "done") =>
        \A i \in 1..Len(AllRoutes(api)) : \A j \in 1..Len(args.extra_arg) :
            LET routes == AllRoutes(api)
                rules == args.extra_arg
                decl == ArgDeclaration(files[1].text, routes[i].arg_data_type)
            IN (/\ \A i2 \in 1..Len(routes) :
                     routes[i2].arg_data_type = routes[i].arg_data_type => i2 = i
                /\ \A j2 \in 1..Len(rules) : rules[j2].match = rules[j].match => j2 = j
                /\ <<rules[j].match.v[1].v, rules[j].match.v[2].v>> \in Range(routes[i].attrs))
               => Cardinality({l \in 1..Len(decl) :
                                 decl[l].toks = <<rules[j].arg_name.v, "?", ": ",
                                                  rules[j].arg_type.v, ";">>}) = 1

\* an option json.loads accepts as an object or rejects, and that fails a check
Malformed(raw) == raw.json # "number" /\ ExtraArgCheck(raw) # ""

\* C6: once the options are parsed, if some are malformed the run has exited
\* non-zero with one report for each malformed option, naming the check it
\* failed, and no file is produced.
C6_EachMalformedReported ==
    (backend = "tsd" /\ pc # "generate"
     /\ (\A i \in 1..Len(args.extra_arg) : args.extra_arg[i].json # "number")
     /\ (\E i \in 1..Len(args.extra_arg) : Malformed(args.extra_arg[i]))) =>
        /\ pc = "fault" /\ fault = "exit 1"
        /\ files = <<>>
        /\ stderr = [i \in 1..Len(SelectSeq(args.extra_arg, Malformed)) |->
                       [msg |-> ExtraArgCheck(SelectSeq(args.extra_arg, Malformed)[i]),
                        raw |-> SelectSeq(args.extra_arg, Malformed)[i]]]

----------------------------------------------------------------------------
(* The emitted Swift serializers.                                          *)

\* the lines of 'public class NSerializer: ... {' in a Swift text up to the
\* next class
SwiftSerializerClass(text, n) ==
    LET h == FirstFrom(text, 1,
                       LAMBDA it : StartsWith(it.toks,
                                              <<"public class ", Capitalize(n), "Serializer">>))
        e == IF h = 0 THEN 0
             ELSE FirstFrom(text, h + 1, LAMBDA it : StartsWith(it.toks, <<"public class ">>))
    IN IF h = 0 THEN <<>>
       ELSE SubSeq(text, h, IF e = 0 THEN Len(text) ELSE e - 1)

\* the lines of 'switch tag { ... }' of n's deserializer, <<>> if it has none
TagSwitch(text, n) ==
    LET c == SwiftSerializerClass(text, n)
        h == FirstFrom(c, 1, LAMBDA it : it.toks = <<"switch tag", " {">>)
        e == IF h = 0 THEN 0
             ELSE FirstFrom(c, h + 1, LAMBDA it : it.toks = <<"}">> /\ it.dent = c[h].dent)
    IN IF e = 0 THEN <<>> ELSE SubSeq(c, h, e)

\* the statements under the label at line j of a switch: the lines after it
\* that are indented deeper than the label
Branch(sw, j) ==
    LET e == FirstFrom(sw, j + 1, LAMBDA it : it.dent <= sw[j].dent)
        stmts == SubSeq(sw, j + 1, IF e = 0 THEN Len(sw) ELSE e - 1)
    IN [i \in 1..Len(stmts) |-> stmts[i].toks]

\* the statements a tag switch runs for a tag: those of the tag's case, or of
\* 'default:' when no case names the tag
Dispatch(sw, tag) ==
    LET c == FirstFrom(sw, 1, LAMBDA it : it.toks = <<"case \"", tag, "\":">>)
        dflt == FirstFrom(sw, 1, LAMBDA it : it.toks = <<"default:">>)
    IN IF c # 0 THEN Branch(sw, c)
       ELSE IF dflt # 0 THEN Branch(sw, dflt)
       ELSE <<>>

\* wire tags the IRs of the model never declare
UndeclaredTags == {"z", "w"}

\* C7: in every emitted Swift file, the deserializer of a struct with
\* enumerated subtypes sends the tag of each subtype to that subtype's
\* deserializer; a tag that is not declared reaches the single statement
\* fatalError when the struct is no catch-all, and otherwise decodes the fields
\* of the struct itself and returns that value.
C7_SubtypeDispatch ==
    \A k \in 1..Len(files) : \A n \in StructNames :
        LET sw == TagSwitch(files[k].text, n)
            st == api.types[n].subtypes
            declared == {st[i].name : i \in 1..Len(st)}
        IN (backend = "swift" /\ st # <<>> /\ SwiftSerializerClass(files[k].text, n) # <<>>) =>
             /\ sw # <<>>
             /\ \A i \in 1..Len(st) :
                   Dispatch(sw, st[i].name)
                   = << <<"return ", Capitalize(st[i].data_type), "Serializer()",
                          ".deserialize(json)">> >>
             /\ \A tag \in UndeclaredTags \ declared :
                   LET b == Dispatch(sw, tag)
                   IN IF api.types[n].catch_all
                      THEN /\ b # <<>>
                           /\ StartsWith(b[Len(b)], <<"return ", Capitalize(n), "(">>)
                           /\ \A j \in 1..(Len(b) - 1) : StartsWith(b[j], <<"let ">>)
                           /\ Len(b) = Len(all_fields(n)) + 1
                      ELSE b = << <<"fatalError(\"Unknown tag \\(tag)\")">> >>

\* a Swift file in which R, a catch-all with the subtypes x -> X and y -> Y
\* and one field, dispatches "x" to X's deserializer and decodes itself for "z"
C7_Witness ==
    /\ backend = "swift"
    /\ api.types["R"].catch_all
    /\ Len(api.types["R"].subtypes) = 2
    /\ \E k \in 1..Len(files) :
          LET sw == TagSwitch(files[k].text, "R")
          IN /\ sw # <<>>
             /\ Dispatch(sw, "x") = << <<"return ", "X", "Serializer()",
                                         ".deserialize(json)">> >>
             /\ Len(Dispatch(sw, "z")) = 2
             /\ Dispatch(sw, "z")[2] = <<"return ", "R", "(", "a", ": ", "a", ")">>

----------------------------------------------------------------------------
(* The Swift runtime the emitted code calls: the serializers of            *)
(* BabelSerializers.swift on Swift values and JSON values.                 *)

\* Swift values: nil, a string, an integer or a boolean with its text, and
\* an array with its elements
Nil == <<"nil">>
\* JSON values: .Null, .Str, .Number, .Bool, .Array
JNull == <<"Null">>
Stops == <<"!fatalError">>

RECURSIVE PlainValues(_)
\* the values of a type that is not Nullable; of a list, the empty array and
\* the arrays of one element
PlainValues(u) ==
    CASE u.kind = "String" -> {<<"string", "">>, <<"string", "x">>}
      [] u.kind = "Int32" -> {<<"int", "0">>, <<"int", "7">>}
      [] u.kind = "Boolean" -> {<<"bool", "true">>, <<"bool", "false">>}
      [] u.kind = "List" -> {<<"array", <<>>>>}
                            \cup {<<"array", <<v>>>> : v \in PlainValues(u.data_type)}
      [] OTHER -> {}

\* the values of an IR type the round trip is tried on
SwiftValues(t) ==
    IF t.kind = "Nullable" THEN PlainValues(t.data_type) \cup {Nil} ELSE PlainValues(t)

\* the JSON case and the Swift type the serializer named e converts between
WireOf(e) ==
    CASE e = <<"Serialization._StringSerializer">> -> <<"Str", "string">>
      [] e = <<"Serialization._Int32Serializer">> -> <<"Number", "int">>
      [] e = <<"Serialization._BoolSerializer">> -> <<"Bool", "bool">>
      [] OTHER -> <<"?", "?">>

RECURSIVE Serialize(_, _)
\* e.serialize(v): NullableSerializer writes .Null for nil, ArraySerializer
\* writes .Array of its elements' values
Serialize(e, v) ==
    IF e[1] = "NullableSerializer("
    THEN IF v = Nil THEN JNull ELSE Serialize(SubSeq(e, 2, Len(e) - 1), v)
    ELSE IF e[1] = "ArraySerializer("
    THEN IF v = Nil \/ v[1] # "array" THEN Stops
         ELSE LET items == [i \in 1..Len(v[2]) |->
                              Serialize(SubSeq(e, 2, Len(e) - 1), v[2][i])]
              IN IF Stops \in Range(items) THEN Stops ELSE <<"Array", items>>
    ELSE IF v # Nil /\ v[1] = WireOf(e)[2] THEN <<WireOf(e)[1], v[2]>>
    ELSE Stops

RECURSIVE Deserialize(_, _)
\* e.deserialize(json): NullableSerializer reads .Null as nil, every other
\* serializer stops on a JSON value that is not of its case
Deserialize(e, json) ==
    IF e[1] = "NullableSerializer("
    THEN IF json = JNull THEN Nil ELSE Deserialize(SubSeq(e, 2, Len(e) - 1), json)
    ELSE IF e[1] = "ArraySerializer("
    THEN IF json = JNull \/ json[1] # "Array" THEN Stops
         ELSE LET items == [i \in 1..Len(json[2]) |->
                              Deserialize(SubSeq(e, 2, Len(e) - 1), json[2][i])]
              IN IF Stops \in Range(items) THEN Stops ELSE <<"array", items>>
    ELSE IF json # JNull /\ json[1] = WireOf(e)[1] THEN <<WireOf(e)[2], json[2]>>
    ELSE Stops

\* the entries of the dictionary serialize writes: key, serializer, property
SerializeEntries(text, n) ==
    LET c == SwiftSerializerClass(text, n)
        ls == SelectSeq(c, LAMBDA it : /\ Len(it.toks) >= 7
                                       /\ it.toks[1] = "\""
                                       /\ it.toks[3] = "\": "
                                       /\ it.toks[Len(it.toks) - 2] = ".serialize(value."
                                       /\ it.toks[Len(it.toks)] = "),")
    IN [i \in 1..Len(ls) |->
          [key |-> ls[i].toks[2], ser |-> SubSeq(ls[i].toks, 4, Len(ls[i].toks) - 3),
           var |-> ls[i].toks[Len(ls[i].toks) - 1]]]

\* the keys deserialize reads: key, serializer, the local it binds
DeserializeEntries(text, n) ==
    LET c == SwiftSerializerClass(text, n)
        ls == SelectSeq(c, LAMBDA it : /\ Len(it.toks) >= 7
                                       /\ it.toks[1] = "let "
                                       /\ it.toks[3] = " = "
                                       /\ it.toks[Len(it.toks) - 2] = ".deserialize(dict[\""
                                       /\ it.toks[Len(it.toks)] = "\"] ?? .Null)")
    IN [i \in 1..Len(ls) |->
          [key |-> ls[i].toks[Len(ls[i].toks) - 1],
           ser |-> SubSeq(ls[i].toks, 4, Len(ls[i].toks) - 3),
           var |-> ls[i].toks[2]]]

\* the arguments of the constructor deserialize returns: <<parameter, ": ", local>>
ConstructorArgs(text, n) ==
    LET c == SwiftSerializerClass(text, n)
        r == FirstFrom(c, 1, LAMBDA it : StartsWith(it.toks, <<"return ", Capitalize(n), "(">>))
    IN IF r = 0 THEN <<>>
       ELSE SelectSeq(SplitOn(SubSeq(c[r].toks, 4, Len(c[r].toks) - 1), ", "),
                      LAMBDA a : a # <<>>)

\* the JSON value found under a key of the dictionary serialize wrote for a
\* struct whose i-th field holds vals[i]; .Null when the key is absent
WireValue(entries, vals, key) ==
    LET hits == {i \in 1..Len(entries) : entries[i].key = key}
    IN IF hits = {} THEN JNull
       ELSE LET i == CHOOSE i \in hits : TRUE
            IN Serialize(entries[i].ser, vals[i])

\* C8: in every emitted Swift file, for a struct without enumerated subtypes,
\* serialize writes one key per field of all_fields, deserialize reads the
\* same keys through the same serializer expressions and hands each to the
\* constructor parameter of its field, so that every value of every field
\* comes back unchanged, and a nullable field whose key is absent comes back nil.
C8_RoundTrip ==
    \A k \in 1..Len(files) : \A n \in StructNames :
        LET text == files[k].text
            fs == all_fields(n)
            se == SerializeEntries(text, n)
            de == DeserializeEntries(text, n)
            ca == ConstructorArgs(text, n)
        IN (backend = "swift" /\ api.types[n].subtypes = <<>>
            /\ SwiftSerializerClass(text, n) # <<>>) =>
             /\ Len(se) = Len(fs) /\ Len(de) = Len(fs) /\ Len(ca) = Len(fs)
             /\ \A i \in 1..Len(fs) :
                   /\ se[i].key = fs[i].name /\ se[i].var = fs[i].name
                   /\ de[i].key = se[i].key
                   /\ de[i].ser = se[i].ser
                   /\ ca[i] = <<fs[i].name, ": ", de[i].var>>
                   /\ SwiftValues(fs[i].data_type) # {}
                   /\ \A v \in SwiftValues(fs[i].data_type) :
                         Deserialize(de[i].ser,
                                     WireValue(se, [j \in 1..Len(fs) |->
                                                      IF j = i THEN v ELSE Nil],
                                               de[i].key)) = v
                   /\ fs[i].data_type.kind = "Nullable" =>
                         Deserialize(de[i].ser, WireValue(<<>>, <<>>, de[i].key)) = Nil

\* a Swift file with the serializer of P {a: Int32, b: String?}, whose
\* deserialize reads "b" through NullableSerializer
C8_Witness ==
    /\ backend = "swift"
    /\ api.types["P"].fields = DefaultFields
    /\ \E k \in 1..Len(files) :
          /\ Len(SerializeEntries(files[k].text, "P")) = 2
          /\ DeserializeEntries(files[k].text, "P")[2]
             = [key |-> "b", var |-> "b",
                ser |-> <<"NullableSerializer(", "Serialization._StringSerializer", ")">>]

----------------------------------------------------------------------------
(* The preamble and the unrecognised types.                                *)

\* how many tokens of a text are tok
CountToken(text, tok) ==
    LET chars == Flatten(text)
    IN Cardinality({i \in 1..Len(chars) : chars[i] = tok})

\* the indentations of the lines of a text that define the Timestamp alias
TimestampDents(text) ==
    [i \in 1..Len(SelectSeq(text, LAMBDA it : it.toks = timestamp_definition)) |->
        SelectSeq(text, LAMBDA it : it.toks = timestamp_definition)[i].dent]

\* the error envelope and the Timestamp alias are in every file once, the
\* alias at top level in combined mode and inside the module otherwise
EnvelopeAndTimestampOnce(text) ==
    LET top == args.spaces_per_indent * args.indent_level
    IN /\ CountToken(text, "interface Error<T> {")
          = (IF args.exclude_error_types THEN 0 ELSE 1)
       /\ CountToken(text, "interface UserMessage {")
          = (IF args.exclude_error_types THEN 0 ELSE 1)
       /\ TimestampDents(text)
          = (IF args.filename # "" THEN <<top>> ELSE <<top + args.spaces_per_indent>>)

\* C9: every file of the TypeScript backend holds the header comment once,
\* the error envelope once unless it is excluded, and the Timestamp alias
\* once: at top level in combined mode, inside the namespace module in
\* per-namespace mode.
C9_PreambleOnce ==
    backend = "tsd" =>
        \A k \in 1..Len(files) :
            /\ CountToken(files[k].text, header[1]) = 1
            /\ EnvelopeAndTimestampOnce(files[k].text)

RECURSIVE Unrecognised(_)
\* a data type built on a variant no type test recognises
Unrecognised(t) ==
    \/ t.kind = "Unsupported"
    \/ t.kind \in {"Nullable", "List"} /\ Unrecognised(t.data_type)

\* the generation meets an unrecognised type: as a data type of a namespace,
\* or as the type of a field of one
MeetsUnrecognised ==
    \E i \in 1..Len(api.namespaces) : \E j \in 1..Len(api.namespaces[i].data_types) :
        LET t == api.types[api.namespaces[i].data_types[j]]
        IN \/ t.kind = "Other"
           \/ \E f \in 1..Len(t.fields) : Unrecognised(t.fields[f].data_type)

\* C10: a run of either backend that meets an unrecognised data type never
\* completes: it aborts on a fault, and writes no file that skips the type or
\* holds text for it.
C10_UnsupportedTypeIsFatal ==
    MeetsUnrecognised =>
        /\ pc # "done"
        /\ \A k \in 1..Len(files) : files[k] \in Range(SupportFiles)

----------------------------------------------------------------------------
(* The leaf of a tree that no ancestor lists.                              *)

\* the data types the namespaces of the API hold
GeneratedTypes ==
    UNION {Range(api.namespaces[i].data_types) : i \in 1..Len(api.namespaces)}

\* a struct of an enumerated-subtypes tree without subtypes of its own that
\* its nearest ancestor with enumerated subtypes does not list
UnlistedLeaf(n) ==
    /\ TypeDef(n).kind = "Struct"
    /\ is_member_of_enumerated_subtypes_tree(n)
    /\ ~has_enumerated_subtypes(n)
    /\ LET p == NearestEnumeratingParent(TypeDef(n).parent_type)
       IN p # None /\ TagIn(p, n) = ""

\* C11: a run of the TypeScript backend over an API that holds a struct of an
\* enumerated-subtypes tree which has no subtypes of its own and is not
\* listed by its nearest ancestor with enumerated subtypes aborts on a fault:
\* it never completes, and writes no file that lacks the reference shape.
C11_UnlistedLeafIsFatal ==
    (backend = "tsd" /\ \E n \in GeneratedTypes : UnlistedLeaf(n)) =>
        /\ pc # "done"
        /\ files = <<>>

----------------------------------------------------------------------------
(* The indentation counter.  The emitters pass the depth of a block to     *)
(* what they call inside it, so the counter is balanced over a run when    *)
(* every emitter call that returns leaves the depth it was entered with.   *)

\* an emitter call of a run: the depth at its entry and its result
Call(d, r) == [d |-> d, r |-> r]

\* the calls of the output-unit, namespace and type emitters of the
\* TypeScript backend over the API of the run
TsdEmitterCalls ==
    LET sp == args.spaces_per_indent
        ind == sp * args.indent_level
        split == (args.filename = "")
        nss == api.namespaces
    IN {Call(0, _generate_base_namespace_module(TsdUnits[u].namespace_list,
                                                template_file.text, extra_args,
                                                args.exclude_error_types, split).r) :
           u \in 1..Len(TsdUnits)}
       \cup {Call(ind, _generate_types(ind, nss[i], sp, extra_args, split)) :
                i \in 1..Len(nss)}
       \cup UNION {{Call(ind + sp, _generate_type(ind + sp, n, sp, ExtraArgsGet(extra_args, n))) :
                       n \in Range(get_data_types_for_namespace(nss[i]))} :
                   i \in 1..Len(nss)}

\* the calls of the output-unit, type, initializer and route emitters of the
\* Swift generator over the API of the run
SwiftEmitterCalls ==
    LET nss == api.namespaces
    IN {Call(0, Swift_generate_base_namespace_module(nss[i])) : i \in 1..Len(nss)}
       \cup {Call(0, _generate_routes(0, nss[i])) : i \in 1..Len(nss)}
       \cup UNION {{Call(SwiftDent, SwiftGenerateDataType(SwiftDent, nss[i].name, n)) :
                       n \in Range(nss[i].data_types)} : i \in 1..Len(nss)}
       \cup UNION {{Call(2 * SwiftDent, _generate_struct_init(2 * SwiftDent, nss[i].name, n)) :
                       n \in {m \in Range(nss[i].data_types) : is_struct_type(Ref(m))}} :
                   i \in 1..Len(nss)}
       \cup UNION {{Call(SwiftDent, _generate_route(SwiftDent, nss[i].name, nss[i].routes[j])) :
                       j \in 1..Len(nss[i].routes)} : i \in 1..Len(nss)}

EmitterCalls == IF backend = "tsd" THEN TsdEmitterCalls ELSE SwiftEmitterCalls

MissingMarker == "AssertionError: Missing /*TYPES*/ in TypeScript template file."

----------------------------------------------------------------------------
(* The subtype switch of serialize.                                        *)

\* the lines of 'switch value { ... }' of n's serializer, <<>> if it has none
ValueSwitch(text, n) ==
    LET c == SwiftSerializerClass(text, n)
        h == FirstFrom(c, 1, LAMBDA it : it.toks = <<"switch value", " {">>)
        e == IF h = 0 THEN 0
             ELSE FirstFrom(c, h + 1, LAMBDA it : it.toks = <<"}">> /\ it.dent = c[h].dent)
    IN IF e = 0 THEN <<>> ELSE SubSeq(c, h, e)

\* the statements of the case of a value switch that binds a subtype
MergeCase(sw, tag, subtype) ==
    LET c == FirstFrom(sw, 1,
                       LAMBDA it : /\ StartsWith(it.toks, <<"case let ", tag, " as ">>)
                                   /\ SubSeq(it.toks, Len(it.toks) - 1, Len(it.toks))
                                      = <<Capitalize(subtype), ":">>)
    IN IF c = 0 THEN <<>> ELSE Branch(sw, c)

\* C13: in every emitted Swift file, serialize of a struct with enumerated
\* subtypes, with or without fields, holds a switch on the value with one case
\* per subtype that copies the subtype's serialized fields into the output and
\* sets ".tag" to the subtype's tag, and a default branch that is a fatal
\* fault.
C13_SubtypeSerializeSwitch ==
    \A k \in 1..Len(files) : \A n \in StructNames :
        LET sw == ValueSwitch(files[k].text, n)
            st == api.types[n].subtypes
        IN (backend = "swift" /\ st # <<>> /\ SwiftSerializerClass(files[k].text, n) # <<>>) =>
             /\ sw # <<>>
             /\ \A i \in 1..Len(st) :
                   MergeCase(sw, st[i].name, st[i].data_type)
                   = << <<"for (k,v) in Serialization.getFields(",
                          Capitalize(st[i].data_type), "Serializer()",
                          ".serialize(", st[i].name, "))", " {">>,
                        <<"output[k] = v">>,
                        <<"}">>,
                        <<"output[\".tag\"] = .Str(\"", st[i].name, "\")">> >>
             /\ \E j \in 1..Len(sw) :
                   sw[j].toks = <<"default: fatalError(\"Tried to serialize unexpected subtype\")">>

----------------------------------------------------------------------------
(* The tag switch of a union's deserializer.                               *)

UnionNames == {n \in DOMAIN api.types : api.types[n].kind = "Union"}

\* the tags of the 'case "tag":' labels of a tag switch, in the order of the text
CaseTags(sw) ==
    LET ls == SelectSeq(sw, LAMBDA it : /\ Len(it.toks) = 3
                                        /\ it.toks[1] = "case \""
                                        /\ it.toks[3] = "\":")
    IN [i \in 1..Len(ls) |-> ls[i].toks[2]]

\* a variant carries no payload: its type, less one Nullable, is Void
TagOnly(field) == unwrap_nullable(field.data_type)[1].kind = "Void"

----------------------------------------------------------------------------
(* The wrapper of a route.                                                 *)

\* the routes of the API with the name of their namespace
RoutesOf ==
    UNION {{[ns |-> api.namespaces[i].name, route |-> api.namespaces[i].routes[j]] :
               j \in 1..Len(api.namespaces[i].routes)} : i \in 1..Len(api.namespaces)}

\* the lines of the wrappers a Swift text declares for a route: from each
\* 'public func nsRoute(' to the '}' that closes it
Wrappers(text, nr) ==
    LET hs == {h \in 1..Len(text) :
                  StartsWith(text[h].toks, <<"public func ", nr.ns, Capitalize(nr.route.name), "(">>)}
    IN {SubSeq(text, h, FirstFrom(text, h + 1,
                                  LAMBDA it : it.toks = <<"}">> /\ it.dent = text[h].dent)) :
           h \in hs}

\* the place of the first token tok of a line, 0 if it has none
TokenAt(toks, tok) ==
    LET hits == {i \in 1..Len(toks) : toks[i] = tok}
    IN IF hits = {} THEN 0 ELSE CHOOSE i \in hits : \A j \in hits : i <= j

\* the parameters a wrapper declares, each the tokens 'name: type [= default]'
WrapperParameters(w) ==
    LET sig == w[1].toks
        arrow == TokenAt(sig, " -> ")
    IN SelectSeq(SplitOn(SubSeq(sig, 5, arrow - 2), ", "), LAMBDA a : a # <<>>)

\* the name a parameter declares; the first may carry the marker '#'
Declares(param, name) == param[1] \in {name, "#" \o name} /\ param[2] = ": "

\* the parameters the rule for the request type gives: name and the default
\* the parameter keeps ("" if none)
ExpectedParameters(route) ==
    LET t == route.arg_data_type
        fs == IF is_struct_type(t) THEN all_fields(t.name) ELSE <<>>
    IN (IF is_struct_type(t)
        THEN [i \in 1..Len(fs) |->
                [name |-> fs[i].name,
                 default |-> IF fs[i].has_default THEN fs[i].default.v ELSE ""]]
        ELSE IF is_void_type(t) THEN <<>>
        ELSE <<[name |-> "request", default |-> ""]>>)
       \o (IF AttrsGet(route.attrs, "style", None) = "upload"
           THEN <<[name |-> "body", default |-> ""]>> ELSE <<>>)

\* the names passed to the request constructor in the body of a wrapper
ConstructorNames(w) ==
    LET r == FirstFrom(w, 1, LAMBDA it : StartsWith(it.toks, <<"let request = ">>))
        open == IF r = 0 THEN 0 ELSE TokenAt(w[r].toks, "(")
        as == IF r = 0 THEN <<>>
              ELSE SelectSeq(SplitOn(SubSeq(w[r].toks, open + 1, Len(w[r].toks) - 1), ", "),
                             LAMBDA a : a # <<>>)
    IN {as[i][Len(as[i])] : i \in 1..Len(as)}

\* C15: in every emitted Swift file, the wrapper of a route declares, in this
\* order: one parameter per field of the request struct's all_fields, each
\* keeping the field's default, when the request type is a struct; the single
\* parameter 'request' when it is neither a struct nor void; no request
\* parameter when it is void; and last, for an upload route only, 'body'.
\* Every name the body passes to the request constructor is a declared
\* parameter.
C15_WrapperParameters ==
    backend = "swift" =>
      \A k \in 1..Len(files) : \A nr \in RoutesOf : \A w \in Wrappers(files[k].text, nr) :
        LET ps == WrapperParameters(w)
            ex == ExpectedParameters(nr.route)
        IN /\ Len(ps) = Len(ex)
           /\ \A i \in 1..Len(ex) :
                 /\ Declares(ps[i], ex[i].name)
                 /\ ex[i].default # "" =>
                       SubSeq(ps[i], Len(ps[i]) - 1, Len(ps[i])) = <<" = ", ex[i].default>>
           /\ \A name \in ConstructorNames(w) :
                 \E i \in 1..Len(ps) : Declares(ps[i], name)

\* a Swift file with the wrapper of an upload route whose request struct Q
\* inherits the field a, with a default, from P and declares d itself
C15_Witness ==
    /\ backend = "swift"
    /\ pc = "done"
    /\ \E nr \in RoutesOf :
          /\ nr.route.arg_data_type = Ref("Q")
          /\ AttrsGet(nr.route.attrs, "style", None) = "upload"
          /\ Len(all_fields("Q")) = 2
          /\ all_fields("Q")[1].has_default
          /\ all_fields("Q")[2].name = "d"
          /\ \E w \in Wrappers(files[Len(files)].text, nr) :
                /\ Len(WrapperParameters(w)) = 3
                /\ Declares(WrapperParameters(w)[3], "body")
                /\ ConstructorNames(w) = {"a", "d"}

----------------------------------------------------------------------------
(* The request a wrapper returns.                                          *)

RECURSIVE Text(_)
\* the string a sequence of tokens spells
Text(toks) == IF toks = <<>> THEN "" ELSE Head(toks) \o Text(Tail(toks))

\* the arguments of the request a wrapper returns: name |-> tokens of the value
ReturnedArguments(w) ==
    LET r == FirstFrom(w, 1, LAMBDA it : /\ Len(it.toks) >= 4
                                         /\ it.toks[1] = "return Babel"
                                         /\ it.toks[3] = "Request(")
        as == IF r = 0 THEN <<>>
              ELSE SelectSeq(SplitOn(SubSeq(w[r].toks, 4, Len(w[r].toks) - 1), ", "),
                             LAMBDA a : a # <<>>)
    IN [i \in 1..Len(as) |-> [name |-> as[i][1], value |-> SubSeq(as[i], 3, Len(as[i]))]]

\* the value of the argument of a name, <<>> if the request has none
Argument(w, name) ==
    LET as == ReturnedArguments(w)
        hits == {i \in 1..Len(as) : as[i].name = name}
    IN IF hits = {} THEN <<>> ELSE as[CHOOSE i \in hits : TRUE].value

\* what a returned request holds besides the route path: the host, the
\* serialized request, the two serializers, and the payload for uploads only
PackagesRequest(w, nr) ==
    LET upload == AttrsGet(nr.route.attrs, "style", None) = "upload"
        ser == Argument(w, "params")
    IN /\ Text(Argument(w, "host")) = "\"" \o AttrsGet(nr.route.attrs, "host", "meta") \o "\""
       /\ Len(ser) >= 3
       /\ SubSeq(ser, Len(ser) - 2, Len(ser))
          = <<".serialize(", IF is_void_type(nr.route.arg_data_type) THEN "" ELSE "request", ")">>
       /\ SubSeq(ser, 1, Len(ser) - 3) = _serializer_obj(nr.route.arg_data_type, nr.ns)
       /\ Argument(w, "responseSerializer") = _serializer_obj(nr.route.result_data_type, nr.ns)
       /\ Argument(w, "errorSerializer") = _serializer_obj(nr.route.error_data_type, nr.ns)
       /\ (Argument(w, "body") # <<>>) <=> upload
       /\ upload => Argument(w, "body") = <<"body">>

\* C16: in every emitted Swift file, the request the wrapper of a route
\* returns holds the host identifier, the route path "{namespace}/{route}" of
\* the route's namespace and name, the serialized request, the response
\* serializer and the error serializer, and the raw payload exactly when the
\* route is an upload.
C16_ReturnedRequest ==
    backend = "swift" =>
      \A k \in 1..Len(files) : \A nr \in RoutesOf : \A w \in Wrappers(files[k].text, nr) :
        /\ PackagesRequest(w, nr)
        /\ Text(Argument(w, "route")) = "\"" \o nr.ns \o "/" \o nr.route.name \o "\""

\* C16 as amended: in every emitted Swift file, the request the wrapper of a
\* route returns holds the host identifier, the route path
\* "/{namespace}/{route}", with a leading slash, of the route's namespace and
\* name, the serialized request, the response serializer and the error
\* serializer, and the raw payload exactly when the route is an upload.
C16_ReturnedRequestRooted ==
    backend = "swift" =>
      \A k \in 1..Len(files) : \A nr \in RoutesOf : \A w \in Wrappers(files[k].text, nr) :
        /\ PackagesRequest(w, nr)
        /\ Text(Argument(w, "route")) = "\"/" \o nr.ns \o "/" \o nr.route.name \o "\""

\* a Swift file with the wrapper of an upload route 'get' of the namespace
\* 'ns' on the host 'content'
C16_Witness ==
    /\ backend = "swift"
    /\ pc = "done"
    /\ \E nr \in RoutesOf : \E w \in Wrappers(files[Len(files)].text, nr) :
          /\ AttrsGet(nr.route.attrs, "style", None) = "upload"
          /\ Text(Argument(w, "host")) = "\"content\""
          /\ Text(Argument(w, "route")) = "\"/ns/get\""
          /\ Argument(w, "body") = <<"body">>

----------------------------------------------------------------------------
(* The style of a route.                                                   *)

\* the styles the spec gives a route: absent, or one of three names
SpecStyles == {None, "rpc", "upload", "download"}

\* the request kind the spec gives a style
KindOfStyle(style) ==
    CASE style = "upload" -> "Upload"
      [] style = "download" -> "Download"
      [] OTHER -> "Rpc"

\* the request kind a wrapper returns: 'Babel<kind>Request<' in its signature
WrapperKind(w) ==
    LET sig == w[1].toks
        arrow == TokenAt(sig, " -> ")
    IN IF arrow = 0 \/ Len(sig) < arrow + 2 THEN "" ELSE sig[arrow + 2]

\* C17: for every route whose style is absent, "rpc", "upload" or "download",
\* the route emitter of the Swift generator completes without fault, and a
\* run that has ended holds exactly one wrapper of the route, of the request
\* kind Rpc, Rpc, Upload and Download respectively.
C17_StyleSelectsWrapper ==
    backend = "swift" =>
      \A nr \in RoutesOf :
        LET style == AttrsGet(nr.route.attrs, "style", None)
        IN (style \in SpecStyles /\ pc \in {"done", "fault"}) =>
             /\ _generate_route(SwiftDent, nr.ns, nr.route).e = ""
             /\ pc = "done"
             /\ Cardinality(Wrappers(files[Len(files)].text, nr)) = 1
             /\ \A w \in Wrappers(files[Len(files)].text, nr) :
                   WrapperKind(w) = KindOfStyle(style)

----------------------------------------------------------------------------
(* The variant shapes of a union in TypeScript.                            *)

\* the unions the k-th file of the TypeScript backend is generated from
FileUnions(k) ==
    LET nss == FileNamespaces(k)
    IN {n \in UNION {Range(nss[i].data_types) : i \in 1..Len(nss)} :
           api.types[n].kind = "Union"}

\* the shapes a text declares for a variant of the union n: the lines from
\* each 'export interface NVariant' to the next '}'
VariantShapes(text, n, variant) ==
    LET hs == {h \in 1..Len(text) :
                  /\ StartsWith(text[h].toks,
                                <<"export interface ", n, Capitalize(variant.name)>>)
                  /\ Len(text[h].toks) >= 4
                  /\ text[h].toks[4] \in {" {", " extends "}}
    IN {SubSeq(text, h, FirstFrom(text, h + 1, LAMBDA it : it.toks = <<"}">>)) : h \in hs}

\* the payload of a variant is a struct without enumerated subtypes
ExtendsPayload(variant) ==
    /\ is_struct_type(variant.data_type)
    /\ ~has_enumerated_subtypes(variant.data_type.name)

\* the lines of the shape the three forms give a variant of the union n
ExpectedShape(n, variant) ==
    LET head == <<"export interface ", n, Capitalize(variant.name)>>
        tag == <<"'.tag': '", variant.name, "';">>
    IN IF ExtendsPayload(variant)
       THEN << head \o <<" extends ", variant.data_type.name, " {">>, tag, <<"}">> >>
       ELSE IF is_void_type(variant.data_type)
       THEN << head \o <<" {">>, tag, <<"}">> >>
       ELSE << head \o <<" {">>, tag,
               <<variant.name, ": ">> \o fmt_type(variant.data_type) \o <<";">>,
               <<"}">> >>

\* the text of the top-level type of the union n: the parent first, if any,
\* then the variant shapes in declaration order
ExpectedSum(n) ==
    LET u == api.types[n]
        names == (IF u.parent_type # None THEN <<u.parent_type>> ELSE <<>>)
                 \o [i \in 1..Len(u.fields) |-> n \o Capitalize(u.fields[i].name)]
    IN "export type " \o n \o " = "
       \o Text(Join(<<" | ">>, [i \in 1..Len(names) |-> <<names[i]>>])) \o ";"

\* C18: in every file of the TypeScript backend, each variant of each union
\* has one shape, with the property '.tag' set to the variant's name, in the
\* form its payload type chooses: extending the payload struct, without a
\* payload property, for a struct without enumerated subtypes; extending
\* nothing, without a payload property, for void; and with one property named
\* after the variant that carries the payload type otherwise.  The union's
\* type is the sum of its parent's name, if it has one, and then of the
\* variant shapes in declaration order.
C18_VariantShapes ==
    backend = "tsd" =>
      \A k \in 1..Len(files) : \A n \in FileUnions(k) :
        LET text == files[k].text
            fs == api.types[n].fields
        IN /\ \A i \in 1..Len(fs) :
                 /\ Cardinality(VariantShapes(text, n, fs[i])) = 1
                 /\ \A sh \in VariantShapes(text, n, fs[i]) :
                       [j \in 1..Len(sh) |-> sh[j].toks] = ExpectedShape(n, fs[i])
           /\ Cardinality({j \in 1..Len(text) : Text(text[j].toks) = ExpectedSum(n)}) = 1

\* a file of the TypeScript backend for a union U that extends V and has a
\* variant whose payload is the struct P and one whose payload is a string
C18_Witness ==
    /\ backend = "tsd"
    /\ pc = "done"
    /\ api.types["U"].parent_type = "V"
    /\ Len(api.types["U"].fields) = 2
    /\ api.types["U"].fields[1].data_type = Ref("P")
    /\ api.types["U"].fields[2].data_type = String
    /\ "U" \in FileUnions(1)
    /\ \E sh \in VariantShapes(files[1].text, "U", api.types["U"].fields[1]) :
          sh[1].toks = <<"export interface ", "U", "X", " extends ", "P", " {">>
    /\ \E j \in 1..Len(files[1].text) :
          Text(files[1].text[j].toks) = "export type U = V | UX | UY;"

----------------------------------------------------------------------------
(* The Swift names of wrapped types.                                       *)

\* the Swift name of a base type in a namespace: a primitive's own name, a
\* composite's class name behind the namespace's
BaseName(t, ns) ==
    IF t.kind = "Ref" THEN Capitalize(ns) \o "." \o Capitalize(t.name) ELSE t.kind

RECURSIVE WrappedName(_, _)
\* the type name: Array<...> per List, '?' after what each Nullable wraps
WrappedName(t, ns) ==
    IF t.kind = "Nullable" THEN WrappedName(t.data_type, ns) \o "?"
    ELSE IF t.kind = "List" THEN "Array<" \o WrappedName(t.data_type, ns) \o ">"
    ELSE BaseName(t, ns)

RECURSIVE WrappedSerializer(_, _)
\* the serializer name: ArraySerializer<...> per List, NullableSerializer<...>
\* per Nullable
WrappedSerializer(t, ns) ==
    IF t.kind = "Nullable"
    THEN "NullableSerializer<" \o WrappedSerializer(t.data_type, ns) \o ">"
    ELSE IF t.kind = "List"
    THEN "ArraySerializer<" \o WrappedSerializer(t.data_type, ns) \o ">"
    ELSE BaseName(t, ns) \o "Serializer"

RECURSIVE IsWrapped(_)
\* a type is built from Nullable and List wrappers over a primitive or a
\* composite base, no Nullable wrapping a Nullable
IsWrapped(t) ==
    \/ t.kind \in {"String", "Int32"}
    \/ is_composite_type(t)
    \/ t.kind = "List" /\ IsWrapped(t.data_type)
    \/ t.kind = "Nullable" /\ t.data_type.kind # "Nullable" /\ IsWrapped(t.data_type)

\* the place of the last token tok of a line, 0 if it has none
LastTokenAt(toks, tok) ==
    LET hits == {i \in 1..Len(toks) : toks[i] = tok}
    IN IF hits = {} THEN 0 ELSE CHOOSE i \in hits : \A j \in hits : i >= j

\* the tokens a wrapper writes for the request type (serializer=false): the
\* class it constructs the request from, or the type of the parameter 'request'
RequestTypeTokens(w) ==
    LET r == FirstFrom(w, 1, LAMBDA it : StartsWith(it.toks, <<"let request = ">>))
        ps == WrapperParameters(w)
    IN IF r # 0 THEN SubSeq(w[r].toks, 2, TokenAt(w[r].toks, "(") - 1)
       ELSE IF ps # <<>> /\ Declares(ps[1], "request") THEN SubSeq(ps[1], 3, Len(ps[1]))
       ELSE <<>>

\* the tokens a wrapper writes for the response type (serializer=true): the
\* first parameter of 'Babel<kind>Request<response, error>'
ResponseSerializerTokens(w) ==
    LET sig == w[1].toks
    IN SubSeq(sig, TokenAt(sig, " -> ") + 4, LastTokenAt(sig, ", ") - 1)

\* C19: in every emitted Swift wrapper of a route whose request and response
\* types are built from Nullable and List wrappers over a primitive or a
\* composite base, the request type (resolved with serializer=false) is the
\* base name inside one Array<...> per List, with one '?' per Nullable placed
\* after what that Nullable wraps, and the response type (resolved with
\* serializer=true) is the serializer name inside one ArraySerializer<...>
\* per List and one NullableSerializer<...> per Nullable, without any '?'.
C19_WrappedTypeNames ==
    backend = "swift" =>
      \A k \in 1..Len(files) : \A nr \in RoutesOf : \A w \in Wrappers(files[k].text, nr) :
        /\ IsWrapped(nr.route.arg_data_type) =>
              Text(RequestTypeTokens(w)) = WrappedName(nr.route.arg_data_type, nr.ns)
        /\ IsWrapped(nr.route.result_data_type) =>
              /\ Text(ResponseSerializerTokens(w))
                 = WrappedSerializer(nr.route.result_data_type, nr.ns)
              /\ "?" \notin Range(ResponseSerializerTokens(w))

\* a Swift wrapper of a route over the nullable list of a composite
C19_Witness ==
    /\ backend = "swift"
    /\ pc = "done"
    /\ \E nr \in RoutesOf : \E w \in Wrappers(files[Len(files)].text, nr) :
          /\ nr.route.arg_data_type = Nullable(List(Ref("P"), None, None))
          /\ nr.route.result_data_type = nr.route.arg_data_type
          /\ Text(RequestTypeTokens(w)) = "Array<Ns.P>?"
          /\ Text(ResponseSerializerTokens(w))
             = "NullableSerializer<ArraySerializer<Ns.PSerializer>>"

(***************************************************************************)
(* C20: for every struct with enumerated subtypes, a tree in which a       *)
(* subtype itself declares enumerated subtypes included, the assertions    *)
(* 'len(tags) == 1' of the enumerated-subtype serializer and deserializer  *)
(* emitters hold, so the Swift run never aborts on them.                   *)
(***************************************************************************)
\* a generated struct whose hierarchy reaches a descendant by several tags
TagPaths ==
    {n \in GeneratedTypes :
        /\ TypeDef(n).kind = "Struct"
        /\ has_enumerated_subtypes(n)
        /\ \E i \in 1..Len(get_all_subtypes_with_tags(n)) :
              Len(get_all_subtypes_with_tags(n)[i].tags) > 1}

C20_TagAssertionsHold ==
    backend = "swift" => fault # "AssertionError"

----------------------------------------------------------------------------
(* The payload serializer of a union variant.                              *)

\* the serializer expression the case of a variant in serialize applies to the
\* payload: the tokens between '"name": ' and '.serialize(arg)', <<>> if the
\* union's value switch has no such case
SerializeApplies(text, n, field) ==
    LET sw == ValueSwitch(text, n)
        c == FirstFrom(sw, 1,
                       LAMBDA it : it.toks = <<"case ", ".", Capitalize(field.name),
                                               "(let arg)", ":">>)
        b == IF c = 0 THEN <<>> ELSE Branch(sw, c)
        head == <<"return ", ".Dictionary([", "\".tag\": .Str(\"", field.name, "\")",
                  ", ", "\"", field.name, "\": ">>
    IN IF Len(b) # 1 \/ ~StartsWith(b[1], head) THEN <<>>
       ELSE LET e == TokenAt(b[1], ".serialize(arg)")
            IN IF e = 0 THEN <<>> ELSE SubSeq(b[1], Len(head) + 1, e - 1)

\* the serializer expression the case of a variant in deserialize applies to
\* the payload: the tokens between 'let v = ' and '.deserialize(d["name"]'
DeserializeApplies(text, n, field) ==
    LET b == Dispatch(TagSwitch(text, n), field.name)
    IN IF Len(b) # 2 \/ ~StartsWith(b[1], <<"let v = ">>) THEN <<>>
       ELSE LET e == TokenAt(b[1], ".deserialize(d[\"")
            IN IF e = 0 THEN <<>> ELSE SubSeq(b[1], 2, e - 1)

\* C21: in every emitted Swift file, for every variant of a union that
\* carries a payload, nullable payloads included, the serializer expression
\* serialize applies to the payload is the one deserialize applies to read it
\* back.
C21_SameSerializer ==
    \A k \in 1..Len(files) : \A n \in UnionNames :
        LET fs == api.types[n].fields
        IN (backend = "swift" /\ SwiftSerializerClass(files[k].text, n) # <<>>) =>
             \A i \in 1..Len(fs) :
                ~TagOnly(fs[i]) =>
                   /\ SerializeApplies(files[k].text, n, fs[i]) # <<>>
                   /\ SerializeApplies(files[k].text, n, fs[i])
                      = DeserializeApplies(files[k].text, n, fs[i])

----------------------------------------------------------------------------
(* Extra arguments over shared argument types and shared match keys.       *)

\* a rule's match is an attribute of a route
RuleMatches(rule, route) ==
    <<rule.match.v[1].v, rule.match.v[2].v>> \in Range(route.attrs)

\* the interface of a struct declares the optional parameter of a rule
DeclaresParameter(text, n, rule) ==
    \E l \in 1..Len(TsdInterface(text, n)) :
        TsdInterface(text, n)[l].toks = <<rule.arg_name.v, "?", ": ", rule.arg_type.v, ";">>

\* C22: in a completed TypeScript run, for every route with a struct
\* argument type and every configured rule whose match is an attribute of the
\* route, the interface of the argument type declares the rule's parameter,
\* however many routes share the argument type and however many rules share
\* the match; and an interface declares the parameter of a rule only if every
\* route with that argument type matches the rule.
C22_EveryMatchInjected ==
    (backend = "tsd" /\ pc = "done") =>
        \A i \in 1..Len(AllRoutes(api)) : \A j \in 1..Len(args.extra_arg) :
            LET routes == AllRoutes(api)
                rule == args.extra_arg[j]
                arg == routes[i].arg_data_type
            IN is_struct_type(arg) =>
                 /\ RuleMatches(rule, routes[i])
                    => DeclaresParameter(files[1].text, arg.name, rule)
                 /\ DeclaresParameter(files[1].text, arg.name, rule)
                    => \A i2 \in 1..Len(routes) :
                          routes[i2].arg_data_type = arg => RuleMatches(rule, routes[i2])

----------------------------------------------------------------------------
(* The doc comment of a struct field.                                      *)

\* the text of the doc comment right above the declaration of a field in the
\* interface of n: the tokens after ' * ', <<>> if the field has no comment
FieldDocComment(text, n, field) ==
    LET b == TsdInterface(text, n)
        l == FirstFrom(b, 1, LAMBDA it : /\ Len(it.toks) >= 2
                                         /\ it.toks[1] = field.name
                                         /\ it.toks[2] \in {": ", "?"})
    IN IF l < 4 THEN <<>>
       ELSE IF /\ b[l - 3].toks = <<"/**">>
               /\ b[l - 1].toks = <<" */">>
               /\ StartsWith(b[l - 2].toks, <<" * ">>)
            THEN Tail(b[l - 2].toks)
            ELSE <<>>

\* C23: in every emitted TypeScript file, the doc comment of a struct field
\* that has a documentation string holds that string, also when the field has
\* a default value.
C23_FieldDocKept ==
    \A k \in 1..Len(files) : \A n \in StructNames :
        (backend = "tsd" /\ TsdInterface(files[k].text, n) # <<>>) =>
            \A i \in 1..Len(api.types[n].fields) :
                LET field == api.types[n].fields[i]
                IN field.doc # "" =>
                     field.doc \in Range(FieldDocComment(files[k].text, n, field))

----------------------------------------------------------------------------
(* The validators of an initializer.                                       *)

\* the statements of the initializer of a Swift class, <<>> if it has none
SwiftInitBody(text, n) ==
    LET c == SwiftClass(text, n)
        i == FirstFrom(c, 1, LAMBDA it : StartsWith(it.toks, <<"public init", "(">>))
    IN IF i = 0 THEN <<>> ELSE Branch(c, i)

\* the tokens t occur in a row somewhere in s
HasRun(s, t) == \E i \in 1..(Len(s) - Len(t) + 1) : SubSeq(s, i, i + Len(t) - 1) = t

\* a statement validates a field as an array with the bounds of a list
ArrayValidates(stmt, name, list) ==
    /\ Len(stmt) >= 3
    /\ SubSeq(stmt, Len(stmt) - 2, Len(stmt)) = <<"(value: ", name, ")">>
    /\ "arrayValidator(" \in Range(stmt)
    /\ list.min_items # None => HasRun(stmt, <<"minItems", ": ", list.min_items>>)
    /\ list.max_items # None => HasRun(stmt, <<"maxItems", ": ", list.max_items>>)

\* the type of a field is a list with a bound, under at most one Nullable
BoundedList(field) ==
    LET t == unwrap_nullable(field.data_type)[1]
    IN t.kind = "List" /\ (t.min_items # None \/ t.max_items # None)

\* C24: in every emitted Swift file, the initializer of a struct holds, for
\* every own field whose type is a list with min_items or max_items set
\* (nullable or not), an arrayValidator call on the field that carries those
\* bounds, whatever the element type of the list.
C24_ListBoundsValidated ==
    \A k \in 1..Len(files) : \A n \in StructNames :
        (backend = "swift" /\ SwiftHasInit(files[k].text, n)) =>
            \A i \in 1..Len(api.types[n].fields) :
                LET field == api.types[n].fields[i]
                    body == SwiftInitBody(files[k].text, n)
                IN BoundedList(field) =>
                     \E j \in 1..Len(body) :
                        ArrayValidates(body[j], field.name,
                                       unwrap_nullable(field.data_type)[1])

====
